---- MODULE Spec2Model ----
(***************************************************************************)
(* Model of the cangaroo hardware-filter compiler (src/driver/CanFilter)   *)
(* and of its orchestrator (src/driver/HardwareFilter.cpp).                *)
(*                                                                         *)
(* The builder objects (canfilter_bxcan, canfilter_fdcan) are records; the *)
(* member functions are operators from an object to a result record        *)
(* [s |-> object after the call, err |-> canfilter_error_t].               *)
(*                                                                         *)
(* Identifier widths and table capacities are scaled down (StdBits for the *)
(* 11-bit space, ExtBits for the 29-bit space, *Banks / *Std / *Ext for    *)
(* the template capacities) so that every pair of endpoints and every      *)
(* over-capacity emission is enumerated. The register layout (shift        *)
(* amounts, flag bits) is the one of the source.                           *)
(***************************************************************************)
EXTENDS Integers, Sequences, FiniteSets, TLC

VARIABLES
    filter,     \* the builder object (std::unique_ptr<canfilter> filter)
    requested,  \* history: [std, ext] sets of IDs passed to add_* since begin()
    episode,    \* history: [begun, ends, allOk, inSpace, n] of the begin..end episode
    lastCall,   \* history: [op, a, b, err] of the latest builder call
    rng,        \* range-decomposition harness: [space, a, b, pc, blocks]
    orch,       \* the frame of setHardwareFilter and of its parse():
                \* [pc, driver_name, filter_def, pos, hw_filter, ret, ulong_limbs]
                \* and, as history, [results, calls, script]
    usb_device, \* the canfilter_usb object: [handle_]
    log         \* history: the open, the control transfers and the parse, in order

vars == <<filter, requested, episode, lastCall, rng, orch, usb_device, log>>

(***************************************************************************)
(* Bounds of the model.                                                    *)
(***************************************************************************)
StdBits == 4        \* width of the standard identifier space (11 in the source)
ExtBits == 6        \* width of the extended identifier space (29 in the source)
MaxCalls == 4       \* builder calls explored after construction

(***************************************************************************)
(* canfilter.hpp: error kinds, controller types, identifier limits.        *)
(***************************************************************************)
CANFILTER_SUCCESS == "Success"
CANFILTER_ERROR_PARAM == "Param"
CANFILTER_ERROR_FULL == "Full"

CANFILTER_DEV_NONE == 0
CANFILTER_DEV_BXCAN_F0 == 1
CANFILTER_DEV_BXCAN_F4 == 2
CANFILTER_DEV_FDCAN_G0 == 3
CANFILTER_DEV_FDCAN_H7 == 4

max_std_id == 2 ^ StdBits - 1
max_ext_id == 2 ^ ExtBits - 1

(***************************************************************************)
(* Bit operations on unsigned words (all model values stay below 2^31).    *)
(***************************************************************************)
RECURSIVE BitAnd(_, _)
BitAnd(x, y) ==
    IF x = 0 \/ y = 0 THEN 0
    ELSE (x % 2) * (y % 2) + 2 * BitAnd(x \div 2, y \div 2)

RECURSIVE BitOr(_, _)
BitOr(x, y) ==
    IF x = 0 THEN y
    ELSE IF y = 0 THEN x
    ELSE (IF x % 2 = 1 \/ y % 2 = 1 THEN 1 ELSE 0) + 2 * BitOr(x \div 2, y \div 2)

Shl(x, n) == x * 2 ^ n
Shr(x, n) == x \div 2 ^ n
TestBit(x, i) == (x \div 2 ^ i) % 2 = 1
SetBit(x, i) == IF TestBit(x, i) THEN x ELSE x + 2 ^ i       \* x |= (1 << i)
ClearBit(x, i) == IF TestBit(x, i) THEN x - 2 ^ i ELSE x     \* x &= ~(1 << i)

\* (~0U << k) & (2^w - 1), for k <= w < 32: the bits k .. w-1
HighMask(w, k) == 2 ^ w - 2 ^ k


Res(s, err) == [s |-> s, err |-> err]

(***************************************************************************)
(* canfilter_bxcan: the object after construction. hw_t() zeroes the       *)
(* image, the counts have default member initialisers, the accumulator     *)
(* arrays are left uninitialised (junk).                                   *)
(***************************************************************************)
canfilter_bxcan(max_banks_t, dev_val, junk) ==
    [ kind           |-> "bxcan",
      max_banks      |-> max_banks_t,
      dev_val        |-> dev_val,
      hw_config      |-> [ dev      |-> 0,
                           reserved |-> <<0, 0, 0>>,
                           fs1r     |-> 0,
                           fm1r     |-> 0,
                           ffa1r    |-> 0,
                           fa1r     |-> 0,
                           fr1      |-> [i \in 0 .. max_banks_t - 1 |-> 0],
                           fr2      |-> [i \in 0 .. max_banks_t - 1 |-> 0] ],
      bank           |-> 0,
      ext_list       |-> [i \in 0 .. 1 |-> junk],
      ext_list_count |-> 0,
      std_mask       |-> [i \in 0 .. 1 |-> [id |-> junk, mask |-> junk]],
      std_mask_count |-> 0,
      std_list       |-> [i \in 0 .. 3 |-> junk],
      std_list_count |-> 0 ]

(***************************************************************************)
(* Bank emission: one bank per call, fr1 / fr2 and the three mode bits.    *)
(***************************************************************************)
\* writes one bank: registers, scale bit (fs1r), mode bit (fm1r), enable bit
WriteBank(s, fr1, fr2, is32, isList) ==
    [s EXCEPT !.hw_config.fr1[s.bank] = fr1,
              !.hw_config.fr2[s.bank] = fr2,
              !.hw_config.fs1r = IF is32 THEN SetBit(@, s.bank) ELSE ClearBit(@, s.bank),
              !.hw_config.fm1r = IF isList THEN SetBit(@, s.bank) ELSE ClearBit(@, s.bank),
              !.hw_config.fa1r = SetBit(@, s.bank),
              !.bank = @ + 1]

emit_std_list(s, id1, id2, id3, id4) ==
    IF s.bank >= s.max_banks THEN Res(s, CANFILTER_ERROR_FULL)
    ELSE IF id1 > max_std_id \/ id2 > max_std_id \/ id3 > max_std_id \/ id4 > max_std_id
    THEN Res(s, CANFILTER_ERROR_PARAM)
    ELSE Res(WriteBank(s, BitOr(Shl(id2, 21), Shl(id1, 5)),
                          BitOr(Shl(id4, 21), Shl(id3, 5)), FALSE, TRUE),
             CANFILTER_SUCCESS)

\* variant that stores identifier and mask in exchanged halves
emit_std_mask_swapped(s, id1, mask1, id2, mask2) ==
    IF s.bank >= s.max_banks THEN Res(s, CANFILTER_ERROR_FULL)
    ELSE IF id1 > max_std_id \/ mask1 > max_std_id \/ id2 > max_std_id \/ mask2 > max_std_id
    THEN Res(s, CANFILTER_ERROR_PARAM)
    ELSE Res(WriteBank(s, BitOr(Shl(id1, 21), Shl(mask1, 5)),
                          BitOr(Shl(id2, 21), Shl(mask2, 5)), FALSE, FALSE),
             CANFILTER_SUCCESS)

emit_std_mask(s, id1, mask1, id2, mask2) ==
    IF s.bank >= s.max_banks THEN Res(s, CANFILTER_ERROR_FULL)
    ELSE IF id1 > max_std_id \/ mask1 > max_std_id \/ id2 > max_std_id \/ mask2 > max_std_id
    THEN Res(s, CANFILTER_ERROR_PARAM)
    ELSE Res(WriteBank(s, BitOr(Shl(mask1, 21), Shl(id1, 5)),
                          BitOr(Shl(mask2, 21), Shl(id2, 5)), FALSE, FALSE),
             CANFILTER_SUCCESS)

emit_ext_list(s, id1, id2) ==
    IF s.bank >= s.max_banks THEN Res(s, CANFILTER_ERROR_FULL)
    ELSE IF id1 > max_ext_id \/ id2 > max_ext_id
    THEN Res(s, CANFILTER_ERROR_PARAM)
    ELSE Res(WriteBank(s, BitOr(Shl(id1, 3), Shl(1, 2)),
                          BitOr(Shl(id2, 3), Shl(1, 2)), TRUE, TRUE),
             CANFILTER_SUCCESS)

\* mutants: no capacity check / capacity check off by one
emit_ext_mask_nocheck(s, id1, mask1) ==
    IF id1 > max_ext_id \/ mask1 > max_ext_id
    THEN Res(s, CANFILTER_ERROR_PARAM)
    ELSE Res(WriteBank(s, BitOr(Shl(id1, 3), Shl(1, 2)), Shl(mask1, 3), TRUE, FALSE),
             CANFILTER_SUCCESS)

emit_ext_mask_offbyone(s, id1, mask1) ==
    IF s.bank > s.max_banks THEN Res(s, CANFILTER_ERROR_FULL)
    ELSE IF id1 > max_ext_id \/ mask1 > max_ext_id
    THEN Res(s, CANFILTER_ERROR_PARAM)
    ELSE Res(WriteBank(s, BitOr(Shl(id1, 3), Shl(1, 2)), Shl(mask1, 3), TRUE, FALSE),
             CANFILTER_SUCCESS)

emit_ext_mask(s, id1, mask1) ==
    IF s.bank >= s.max_banks THEN Res(s, CANFILTER_ERROR_FULL)
    ELSE IF id1 > max_ext_id \/ mask1 > max_ext_id
    THEN Res(s, CANFILTER_ERROR_PARAM)
    ELSE Res(WriteBank(s, BitOr(Shl(id1, 3), Shl(1, 2)), Shl(mask1, 3), TRUE, FALSE),
             CANFILTER_SUCCESS)

(***************************************************************************)
(* Accumulators: replicate the first element, emit when full.              *)
(***************************************************************************)
\* mutant: the first element is not replicated into slots 1 .. 3
add_std_list_norepl(s, id) ==
    IF s.std_list_count > 3 THEN Res(s, CANFILTER_ERROR_PARAM)
    ELSE LET n  == s.std_list_count + 1
             s1 == [s EXCEPT !.std_list[s.std_list_count] = id, !.std_list_count = n]
         IN  IF n = 4
             THEN LET r == emit_std_list(s1, s1.std_list[0], s1.std_list[1],
                                             s1.std_list[2], s1.std_list[3])
                  IN  Res([r.s EXCEPT !.std_list_count = 0], r.err)
             ELSE Res(s1, CANFILTER_SUCCESS)

add_std_list(s, id) ==
    IF s.std_list_count > 3 THEN Res(s, CANFILTER_ERROR_PARAM)
    ELSE LET n  == s.std_list_count + 1
             s1 == [s EXCEPT !.std_list[s.std_list_count] = id, !.std_list_count = n]
         IN  IF n = 1
             THEN Res([s1 EXCEPT !.std_list = [i \in 0 .. 3 |-> id]], CANFILTER_SUCCESS)
             ELSE IF n = 4
             THEN LET r == emit_std_list(s1, s1.std_list[0], s1.std_list[1],
                                             s1.std_list[2], s1.std_list[3])
                  IN  Res([r.s EXCEPT !.std_list_count = 0], r.err)
             ELSE Res(s1, CANFILTER_SUCCESS)

add_std_mask(s, id, mask) ==
    IF s.std_mask_count > 1 THEN Res(s, CANFILTER_ERROR_PARAM)
    ELSE LET n  == s.std_mask_count + 1
             s1 == [s EXCEPT !.std_mask[s.std_mask_count] = [id |-> id, mask |-> mask],
                             !.std_mask_count = n]
         IN  IF n = 1
             THEN Res([s1 EXCEPT !.std_mask[1] = [id |-> id, mask |-> mask]],
                      CANFILTER_SUCCESS)
             ELSE IF n = 2
             THEN LET r == emit_std_mask(s1, s1.std_mask[0].id, s1.std_mask[0].mask,
                                             s1.std_mask[1].id, s1.std_mask[1].mask)
                  IN  Res([r.s EXCEPT !.std_mask_count = 0], r.err)
             ELSE Res(s1, CANFILTER_SUCCESS)

\* variant that emits a bank for every extended identifier instead of pairing
add_ext_list_eager(s, id) ==
    IF s.ext_list_count > 1 THEN Res(s, CANFILTER_ERROR_PARAM)
    ELSE emit_ext_list(s, id, id)

add_ext_list(s, id) ==
    IF s.ext_list_count > 1 THEN Res(s, CANFILTER_ERROR_PARAM)
    ELSE LET n  == s.ext_list_count + 1
             s1 == [s EXCEPT !.ext_list[s.ext_list_count] = id, !.ext_list_count = n]
         IN  IF n = 1
             THEN Res([s1 EXCEPT !.ext_list[1] = id], CANFILTER_SUCCESS)
             ELSE IF n = 2
             THEN LET r == emit_ext_list(s1, s1.ext_list[0], s1.ext_list[1])
                  IN  Res([r.s EXCEPT !.ext_list_count = 0], r.err)
             ELSE Res(s1, CANFILTER_SUCCESS)

add_ext_mask(s, id, mask) == emit_ext_mask(s, id, mask)

(***************************************************************************)
(* CIDR aggregation: largest aligned block at begin that fits in end.      *)
(***************************************************************************)
\* first loop: shrink the prefix while bit (w - prefix) of begin is clear
RECURSIVE PrefixDown(_, _, _)
PrefixDown(w, begin, prefix) ==
    IF prefix > 0 /\ ~TestBit(begin, w - prefix)
    THEN PrefixDown(w, begin, prefix - 1)
    ELSE prefix

\* second loop: grow the prefix while the block overshoots end
RECURSIVE PrefixUp(_, _, _, _)
PrefixUp(w, begin, end, prefix) ==
    IF prefix < w /\ begin + Shl(1, w - prefix) - 1 > end
    THEN PrefixUp(w, begin, end, prefix + 1)
    ELSE prefix

\* mutants: no fit loop (block may overshoot end) / always a one-ID block
std_largest_prefix_nofit(begin, end) == PrefixDown(StdBits, begin, StdBits)
std_largest_prefix_single(begin, end) == StdBits

std_largest_prefix(begin, end) ==
    PrefixUp(StdBits, begin, end, PrefixDown(StdBits, begin, StdBits))

ext_largest_prefix(begin, end) ==
    PrefixUp(ExtBits, begin, end, PrefixDown(ExtBits, begin, ExtBits))

\* variant of the loop that advances begin by one instead of by block_size
RECURSIVE std_range_loop_step1(_, _)
std_range_loop_step1(begin, end) ==
    IF begin > end THEN <<>>
    ELSE LET prefix == std_largest_prefix(begin, end)
             mask   == HighMask(StdBits, StdBits - prefix)
             id     == begin
         IN  <<[list |-> (mask = max_std_id), id |-> id, mask |-> mask]>>
                 \o std_range_loop_step1(begin + 1, end)

\* the blocks the loop of add_std_range hands to add_std_list / add_std_mask,
\* in order, for begin <= end
RECURSIVE std_range_loop(_, _)
std_range_loop(begin, end) ==
    IF begin > end THEN <<>>
    ELSE LET prefix == std_largest_prefix(begin, end)
             mask   == HighMask(StdBits, StdBits - prefix)
             id     == begin
             block_size == Shl(1, StdBits - prefix)
         IN  <<[list |-> (mask = max_std_id), id |-> id, mask |-> mask]>>
                 \o std_range_loop(begin + block_size, end)

RECURSIVE ext_range_loop(_, _)
ext_range_loop(begin, end) ==
    IF begin > end THEN <<>>
    ELSE LET prefix == ext_largest_prefix(begin, end)
             mask   == HighMask(ExtBits, ExtBits - prefix)
             id     == begin
             block_size == Shl(1, ExtBits - prefix)
         IN  <<[list |-> (mask = max_ext_id), id |-> id, mask |-> mask]>>
                 \o ext_range_loop(begin + block_size, end)

\* the swap of unordered endpoints, then the loop
std_range_blocks(begin, end) ==
    IF begin > end THEN std_range_loop(end, begin) ELSE std_range_loop(begin, end)

ext_range_blocks(begin, end) ==
    IF begin > end THEN ext_range_loop(end, begin) ELSE ext_range_loop(begin, end)

\* the loop body's dispatch and its early return on the first failing block
RECURSIVE std_feed(_, _)
std_feed(s, blocks) ==
    IF blocks = <<>> THEN Res(s, CANFILTER_SUCCESS)
    ELSE LET b == Head(blocks)
             r == IF b.list THEN add_std_list(s, b.id) ELSE add_std_mask(s, b.id, b.mask)
         IN  IF r.err # CANFILTER_SUCCESS THEN r ELSE std_feed(r.s, Tail(blocks))

RECURSIVE ext_feed(_, _)
ext_feed(s, blocks) ==
    IF blocks = <<>> THEN Res(s, CANFILTER_SUCCESS)
    ELSE LET b == Head(blocks)
             r == IF b.list THEN add_ext_list(s, b.id) ELSE add_ext_mask(s, b.id, b.mask)
         IN  IF r.err # CANFILTER_SUCCESS THEN r ELSE ext_feed(r.s, Tail(blocks))

bxcan_add_std_range(s, begin, end) ==
    IF begin > max_std_id \/ end > max_std_id THEN Res(s, CANFILTER_ERROR_PARAM)
    ELSE std_feed(s, std_range_blocks(begin, end))

bxcan_add_ext_range(s, begin, end) ==
    IF begin > max_ext_id \/ end > max_ext_id THEN Res(s, CANFILTER_ERROR_PARAM)
    ELSE ext_feed(s, ext_range_blocks(begin, end))

bxcan_add_std_id(s, id) == bxcan_add_std_range(s, id, id)
bxcan_add_ext_id(s, id) == bxcan_add_ext_range(s, id, id)

\* variant of begin() that leaves hw_config.dev unstamped
bxcan_begin_nodev(s) ==
    Res([s EXCEPT !.std_list_count = 0,
                  !.std_mask_count = 0,
                  !.ext_list_count = 0,
                  !.bank = 0,
                  !.hw_config = [ dev      |-> 0,
                                  reserved |-> <<0, 0, 0>>,
                                  fs1r     |-> 0,
                                  fm1r     |-> 0,
                                  ffa1r    |-> 0,
                                  fa1r     |-> 0,
                                  fr1      |-> [i \in 0 .. s.max_banks - 1 |-> 0],
                                  fr2      |-> [i \in 0 .. s.max_banks - 1 |-> 0] ]],
        CANFILTER_SUCCESS)
bxcan_begin(s) ==
    Res([s EXCEPT !.std_list_count = 0,
                  !.std_mask_count = 0,
                  !.ext_list_count = 0,
                  !.bank = 0,
                  !.hw_config = [ dev      |-> s.dev_val,
                                  reserved |-> <<0, 0, 0>>,
                                  fs1r     |-> 0,
                                  fm1r     |-> 0,
                                  ffa1r    |-> 0,
                                  fa1r     |-> 0,
                                  fr1      |-> [i \in 0 .. s.max_banks - 1 |-> 0],
                                  fr2      |-> [i \in 0 .. s.max_banks - 1 |-> 0] ]],
        CANFILTER_SUCCESS)

\* variant of end() that flushes the mask accumulator before the list
bxcan_end_maskfirst(s) ==
    LET r1 == IF s.std_mask_count # 0
              THEN emit_std_mask(s, s.std_mask[0].id, s.std_mask[0].mask,
                                 s.std_mask[1].id, s.std_mask[1].mask)
              ELSE Res(s, CANFILTER_SUCCESS)
        r2 == IF r1.s.std_list_count # 0 /\ r1.err = CANFILTER_SUCCESS
              THEN emit_std_list(r1.s, r1.s.std_list[0], r1.s.std_list[1],
                                 r1.s.std_list[2], r1.s.std_list[3])
              ELSE r1
        r3 == IF r2.s.ext_list_count # 0 /\ r2.err = CANFILTER_SUCCESS
              THEN emit_ext_list(r2.s, r2.s.ext_list[0], r2.s.ext_list[1])
              ELSE r2
    IN  r3

bxcan_end(s) ==
    LET r1 == IF s.std_list_count # 0
              THEN emit_std_list(s, s.std_list[0], s.std_list[1], s.std_list[2], s.std_list[3])
              ELSE Res(s, CANFILTER_SUCCESS)
        r2 == IF r1.s.std_mask_count # 0 /\ r1.err = CANFILTER_SUCCESS
              THEN emit_std_mask(r1.s, r1.s.std_mask[0].id, r1.s.std_mask[0].mask,
                                 r1.s.std_mask[1].id, r1.s.std_mask[1].mask)
              ELSE r1
        r3 == IF r2.s.ext_list_count # 0 /\ r2.err = CANFILTER_SUCCESS
              THEN emit_ext_list(r2.s, r2.s.ext_list[0], r2.s.ext_list[1])
              ELSE r2
    IN  r3

bxcan_get_hw_size(s) == 20 + 8 * s.max_banks

(***************************************************************************)
(* canfilter_fdcan: the object after construction.                         *)
(***************************************************************************)
canfilter_fdcan(max_std_filter, max_ext_filter, dev_val, junk) ==
    [ kind           |-> "fdcan",
      max_std_filter |-> max_std_filter,
      max_ext_filter |-> max_ext_filter,
      dev_val        |-> dev_val,
      hw_config      |-> [ dev            |-> 0,
                           std_filter_nbr |-> 0,
                           ext_filter_nbr |-> 0,
                           reserved       |-> <<0>>,
                           std_filter     |-> [i \in 0 .. max_std_filter - 1 |-> 0],
                           ext_filter     |-> [i \in 0 .. max_ext_filter - 1 |-> <<0, 0>>] ],
      ext_id         |-> [i \in 0 .. 1 |-> junk],
      ext_id_count   |-> 0,
      std_id         |-> [i \in 0 .. 1 |-> junk],
      std_id_count   |-> 0 ]

SFT_RANGE == 0
SFT_DUAL == 1
SFEC_RX_FIFO0 == 1
EFT_RANGE == 0
EFT_DUAL == 1
EFEC_RX_FIFO0 == 1

\* variant that stores the two identifiers in exchanged fields
emit_std_id_swapped(s, id1, id2) ==
    IF s.hw_config.std_filter_nbr >= s.max_std_filter THEN Res(s, CANFILTER_ERROR_FULL)
    ELSE IF id1 > max_std_id \/ id2 > max_std_id THEN Res(s, CANFILTER_ERROR_PARAM)
    ELSE LET sfr == BitOr(BitOr(Shl(SFT_DUAL, 30), Shl(SFEC_RX_FIFO0, 27)),
                          BitOr(Shl(id2, 16), id1))
         IN  Res([s EXCEPT !.hw_config.std_filter[s.hw_config.std_filter_nbr] = sfr,
                           !.hw_config.std_filter_nbr = @ + 1],
                 CANFILTER_SUCCESS)

emit_std_id(s, id1, id2) ==
    IF s.hw_config.std_filter_nbr >= s.max_std_filter THEN Res(s, CANFILTER_ERROR_FULL)
    ELSE IF id1 > max_std_id \/ id2 > max_std_id THEN Res(s, CANFILTER_ERROR_PARAM)
    ELSE LET sfr == BitOr(BitOr(Shl(SFT_DUAL, 30), Shl(SFEC_RX_FIFO0, 27)),
                          BitOr(Shl(id1, 16), id2))
         IN  Res([s EXCEPT !.hw_config.std_filter[s.hw_config.std_filter_nbr] = sfr,
                           !.hw_config.std_filter_nbr = @ + 1],
                 CANFILTER_SUCCESS)

\* mutant: no capacity check
emit_std_range_nocheck(s, id1, id2) ==
    IF id1 > max_std_id \/ id2 > max_std_id \/ id1 > id2
    THEN Res(s, CANFILTER_ERROR_PARAM)
    ELSE LET sfr == BitOr(BitOr(Shl(SFT_RANGE, 30), Shl(SFEC_RX_FIFO0, 27)),
                          BitOr(Shl(id1, 16), id2))
         IN  Res([s EXCEPT !.hw_config.std_filter[s.hw_config.std_filter_nbr] = sfr,
                           !.hw_config.std_filter_nbr = @ + 1],
                 CANFILTER_SUCCESS)

\* variant that takes the room for a standard range from the extended table
emit_std_range_extroom(s, id1, id2) ==
    IF s.hw_config.ext_filter_nbr >= s.max_ext_filter THEN Res(s, CANFILTER_ERROR_FULL)
    ELSE IF id1 > max_std_id \/ id2 > max_std_id \/ id1 > id2
    THEN Res(s, CANFILTER_ERROR_PARAM)
    ELSE LET sfr == BitOr(BitOr(Shl(SFT_RANGE, 30), Shl(SFEC_RX_FIFO0, 27)),
                          BitOr(Shl(id1, 16), id2))
         IN  Res([s EXCEPT !.hw_config.std_filter[s.hw_config.std_filter_nbr] = sfr,
                           !.hw_config.std_filter_nbr = @ + 1],
                 CANFILTER_SUCCESS)

emit_std_range(s, id1, id2) ==
    IF s.hw_config.std_filter_nbr >= s.max_std_filter THEN Res(s, CANFILTER_ERROR_FULL)
    ELSE IF id1 > max_std_id \/ id2 > max_std_id \/ id1 > id2
    THEN Res(s, CANFILTER_ERROR_PARAM)
    ELSE LET sfr == BitOr(BitOr(Shl(SFT_RANGE, 30), Shl(SFEC_RX_FIFO0, 27)),
                          BitOr(Shl(id1, 16), id2))
         IN  Res([s EXCEPT !.hw_config.std_filter[s.hw_config.std_filter_nbr] = sfr,
                           !.hw_config.std_filter_nbr = @ + 1],
                 CANFILTER_SUCCESS)

emit_ext_id(s, id1, id2) ==
    IF s.hw_config.ext_filter_nbr >= s.max_ext_filter THEN Res(s, CANFILTER_ERROR_FULL)
    ELSE IF id1 > max_ext_id \/ id2 > max_ext_id THEN Res(s, CANFILTER_ERROR_PARAM)
    ELSE Res([s EXCEPT !.hw_config.ext_filter[s.hw_config.ext_filter_nbr] =
                            << BitOr(Shl(EFEC_RX_FIFO0, 29), id1),
                               BitOr(Shl(EFT_DUAL, 30), id2) >>,
                       !.hw_config.ext_filter_nbr = @ + 1],
             CANFILTER_SUCCESS)

\* variant that marks the range element with the dual-ID type
emit_ext_range_dualtype(s, id1, id2) ==
    IF s.hw_config.ext_filter_nbr >= s.max_ext_filter THEN Res(s, CANFILTER_ERROR_FULL)
    ELSE IF id1 > max_ext_id \/ id2 > max_ext_id \/ id1 > id2
    THEN Res(s, CANFILTER_ERROR_PARAM)
    ELSE Res([s EXCEPT !.hw_config.ext_filter[s.hw_config.ext_filter_nbr] =
                            << BitOr(Shl(EFEC_RX_FIFO0, 29), id1),
                               BitOr(Shl(EFT_DUAL, 30), id2) >>,
                       !.hw_config.ext_filter_nbr = @ + 1],
             CANFILTER_SUCCESS)

emit_ext_range(s, id1, id2) ==
    IF s.hw_config.ext_filter_nbr >= s.max_ext_filter THEN Res(s, CANFILTER_ERROR_FULL)
    ELSE IF id1 > max_ext_id \/ id2 > max_ext_id \/ id1 > id2
    THEN Res(s, CANFILTER_ERROR_PARAM)
    ELSE Res([s EXCEPT !.hw_config.ext_filter[s.hw_config.ext_filter_nbr] =
                            << BitOr(Shl(EFEC_RX_FIFO0, 29), id1),
                               BitOr(Shl(EFT_RANGE, 30), id2) >>,
                       !.hw_config.ext_filter_nbr = @ + 1],
             CANFILTER_SUCCESS)

\* variant of begin() that keeps the pending standard identifier
fdcan_begin_keepcount(s) ==
    Res([s EXCEPT !.hw_config = [ dev            |-> s.dev_val,
                                  std_filter_nbr |-> 0,
                                  ext_filter_nbr |-> 0,
                                  reserved       |-> <<0>>,
                                  std_filter     |-> [i \in 0 .. s.max_std_filter - 1 |-> 0],
                                  ext_filter     |-> [i \in 0 .. s.max_ext_filter - 1
                                                          |-> <<0, 0>>] ],
                  !.ext_id_count = 0],
        CANFILTER_SUCCESS)
fdcan_begin(s) ==
    Res([s EXCEPT !.hw_config = [ dev            |-> s.dev_val,
                                  std_filter_nbr |-> 0,
                                  ext_filter_nbr |-> 0,
                                  reserved       |-> <<0>>,
                                  std_filter     |-> [i \in 0 .. s.max_std_filter - 1 |-> 0],
                                  ext_filter     |-> [i \in 0 .. s.max_ext_filter - 1
                                                          |-> <<0, 0>>] ],
                  !.std_id_count = 0,
                  !.ext_id_count = 0],
        CANFILTER_SUCCESS)

fdcan_end(s) ==
    LET r1 == IF s.std_id_count # 0
              THEN emit_std_id(s, s.std_id[0], s.std_id[1])
              ELSE Res(s, CANFILTER_SUCCESS)
        r2 == IF r1.s.ext_id_count # 0 /\ r1.err = CANFILTER_SUCCESS
              THEN emit_ext_id(r1.s, r1.s.ext_id[0], r1.s.ext_id[1])
              ELSE r1
    IN  r2

\* variant that leaves the test of the identifier to emit_std_id
fdcan_add_std_id_nocheck(s, id) ==
    IF s.std_id_count > 1 THEN Res(s, CANFILTER_ERROR_PARAM)
    ELSE LET n  == s.std_id_count + 1
             s1 == [s EXCEPT !.std_id[s.std_id_count] = id, !.std_id_count = n]
         IN  IF n = 1
             THEN Res([s1 EXCEPT !.std_id[1] = id], CANFILTER_SUCCESS)
             ELSE LET r == emit_std_id(s1, s1.std_id[0], s1.std_id[1])
                  IN  Res([r.s EXCEPT !.std_id_count = 0], r.err)

fdcan_add_std_id(s, id) ==
    IF id > max_std_id \/ s.std_id_count > 1 THEN Res(s, CANFILTER_ERROR_PARAM)
    ELSE LET n  == s.std_id_count + 1
             s1 == [s EXCEPT !.std_id[s.std_id_count] = id, !.std_id_count = n]
         IN  IF n = 1
             THEN Res([s1 EXCEPT !.std_id[1] = id], CANFILTER_SUCCESS)
             ELSE LET r == emit_std_id(s1, s1.std_id[0], s1.std_id[1])
                  IN  Res([r.s EXCEPT !.std_id_count = 0], r.err)

\* mutant: the first element is not replicated into slot 1
fdcan_add_ext_id_norepl(s, id) ==
    IF id > max_ext_id \/ s.ext_id_count > 1 THEN Res(s, CANFILTER_ERROR_PARAM)
    ELSE LET n  == s.ext_id_count + 1
             s1 == [s EXCEPT !.ext_id[s.ext_id_count] = id, !.ext_id_count = n]
         IN  IF n = 1
             THEN Res(s1, CANFILTER_SUCCESS)
             ELSE LET r == emit_ext_id(s1, s1.ext_id[0], s1.ext_id[1])
                  IN  Res([r.s EXCEPT !.ext_id_count = 0], r.err)

fdcan_add_ext_id(s, id) ==
    IF id > max_ext_id \/ s.ext_id_count > 1 THEN Res(s, CANFILTER_ERROR_PARAM)
    ELSE LET n  == s.ext_id_count + 1
             s1 == [s EXCEPT !.ext_id[s.ext_id_count] = id, !.ext_id_count = n]
         IN  IF n = 1
             THEN Res([s1 EXCEPT !.ext_id[1] = id], CANFILTER_SUCCESS)
             ELSE LET r == emit_ext_id(s1, s1.ext_id[0], s1.ext_id[1])
                  IN  Res([r.s EXCEPT !.ext_id_count = 0], r.err)

\* variant that emits the endpoints as given
fdcan_add_std_range_noswap(s, begin, end) ==
    IF begin > max_std_id \/ end > max_std_id THEN Res(s, CANFILTER_ERROR_PARAM)
    ELSE emit_std_range(s, begin, end)

fdcan_add_std_range(s, begin, end) ==
    IF begin > max_std_id \/ end > max_std_id THEN Res(s, CANFILTER_ERROR_PARAM)
    ELSE IF begin <= end THEN emit_std_range(s, begin, end)
    ELSE emit_std_range(s, end, begin)

fdcan_add_ext_range(s, begin, end) ==
    IF begin > max_ext_id \/ end > max_ext_id THEN Res(s, CANFILTER_ERROR_PARAM)
    ELSE IF begin <= end THEN emit_ext_range(s, begin, end)
    ELSE emit_ext_range(s, end, begin)

fdcan_get_hw_size(s) == 4 + 4 * s.max_std_filter + 8 * s.max_ext_filter

(***************************************************************************)
(* canfilter: the abstract builder contract (virtual dispatch).            *)
(***************************************************************************)
begin(s) == IF s.kind = "bxcan" THEN bxcan_begin(s) ELSE fdcan_begin(s)
end(s) == IF s.kind = "bxcan" THEN bxcan_end(s) ELSE fdcan_end(s)
add_std_id(s, id) ==
    IF s.kind = "bxcan" THEN bxcan_add_std_id(s, id) ELSE fdcan_add_std_id(s, id)
add_ext_id(s, id) ==
    IF s.kind = "bxcan" THEN bxcan_add_ext_id(s, id) ELSE fdcan_add_ext_id(s, id)
add_std_range(s, a, b) ==
    IF s.kind = "bxcan" THEN bxcan_add_std_range(s, a, b) ELSE fdcan_add_std_range(s, a, b)
add_ext_range(s, a, b) ==
    IF s.kind = "bxcan" THEN bxcan_add_ext_range(s, a, b) ELSE fdcan_add_ext_range(s, a, b)
get_hw_size(s) == IF s.kind = "bxcan" THEN bxcan_get_hw_size(s) ELSE fdcan_get_hw_size(s)

\* variant of allow_all() that goes on to the extended range after a failure
allow_all_noshort(s) ==
    add_ext_range(add_std_range(s, 0, max_std_id).s, 0, max_ext_id)
\* canfilter::allow_all
allow_all(s) ==
    LET r == add_std_range(s, 0, max_std_id)
    IN  IF r.err # CANFILTER_SUCCESS THEN r ELSE add_ext_range(r.s, 0, max_ext_id)

(***************************************************************************)
(* canfilter::parse. The text is a sequence of one-character strings;      *)
(* positions are 1-based and At() gives the terminating NUL past the end.  *)
(* strtoul(start, &end, 0) is computed on 16-bit limbs: the unsigned long  *)
(* accumulator has w limbs, 2 or 4 as the build's unsigned long has 32 or  *)
(* 64 bits, and the uint32_t it is stored in keeps the low two.            *)
(***************************************************************************)
ULongLimbs == {2, 4}
LimbBase == 65536

At(input, p) == IF p >= 1 /\ p <= Len(input) THEN input[p] ELSE "NUL"

isspace(c) == c \in {" ", "\t", "\n", "\r", "\f"}

DigitVal(c) ==
    CASE c = "0" -> 0 [] c = "1" -> 1 [] c = "2" -> 2 [] c = "3" -> 3 [] c = "4" -> 4
      [] c = "5" -> 5 [] c = "6" -> 6 [] c = "7" -> 7 [] c = "8" -> 8 [] c = "9" -> 9
      [] c \in {"a", "A"} -> 10 [] c \in {"b", "B"} -> 11 [] c \in {"c", "C"} -> 12
      [] c \in {"d", "D"} -> 13 [] c \in {"e", "E"} -> 14 [] c \in {"f", "F"} -> 15
      [] OTHER -> 99

RECURSIVE SkipSpace(_, _)
SkipSpace(input, pos) ==
    IF pos <= Len(input) /\ isspace(input[pos]) THEN SkipSpace(input, pos + 1) ELSE pos

RECURSIVE SkipSeparators(_, _)
SkipSeparators(input, pos) ==
    IF pos <= Len(input) /\ (isspace(input[pos]) \/ input[pos] = ",")
    THEN SkipSeparators(input, pos + 1)
    ELSE pos

\* limbs * base + carry, least significant limb first
RECURSIVE MulAdd(_, _, _)
MulAdd(limbs, base, carry) ==
    IF limbs = <<>> THEN [limbs |-> <<>>, carry |-> carry]
    ELSE LET x == Head(limbs) * base + carry
             r == MulAdd(Tail(limbs), base, x \div LimbBase)
         IN  [limbs |-> <<x % LimbBase>> \o r.limbs, carry |-> r.carry]

\* the digits of the given base from pos on
RECURSIVE Digits(_, _, _, _, _)
Digits(input, pos, base, limbs, over) ==
    IF DigitVal(At(input, pos)) >= base
    THEN [end |-> pos, limbs |-> limbs, erange |-> over]
    ELSE LET r == MulAdd(limbs, base, DigitVal(At(input, pos)))
         IN  Digits(input, pos + 1, base, r.limbs, over \/ r.carry # 0)

\* (uint32_t) of an unsigned long, as [hi, lo]; negated for a '-' sign;
\* ULONG_MAX on overflow
ToU32(limbs, neg, erange) ==
    LET lo == limbs[1]  hi == limbs[2] IN
    IF erange THEN [hi |-> LimbBase - 1, lo |-> LimbBase - 1]
    ELSE IF ~neg \/ (lo = 0 /\ hi = 0) THEN [hi |-> hi, lo |-> lo]
    ELSE IF lo = 0 THEN [hi |-> LimbBase - hi, lo |-> 0]
    ELSE [hi |-> LimbBase - 1 - hi, lo |-> LimbBase - lo]

U32Le(v, max) == v.hi < 32768 /\ v.hi * LimbBase + v.lo <= max
U32Num(v) == v.hi * LimbBase + v.lo

\* the result of strtoul once the digits d from p2 on are known
strtoul_result(start, neg, p2, d) ==
    IF d.end = p2
    THEN [end |-> start, erange |-> FALSE, val |-> [hi |-> 0, lo |-> 0]]
    ELSE [end |-> d.end, erange |-> d.erange, val |-> ToU32(d.limbs, neg, d.erange)]

\* strtoul from p1 on, after the whitespace and the sign: the base prefix
strtoul_base(input, start, neg, p1, w) ==
    IF /\ At(input, p1) = "0" /\ At(input, p1 + 1) \in {"x", "X"}
       /\ DigitVal(At(input, p1 + 2)) < 16
    THEN strtoul_result(start, neg, p1 + 2,
             Digits(input, p1 + 2, 16, [i \in 1 .. w |-> 0], FALSE))
    ELSE IF At(input, p1) = "0"
    THEN strtoul_result(start, neg, p1,
             Digits(input, p1, 8, [i \in 1 .. w |-> 0], FALSE))
    ELSE strtoul_result(start, neg, p1,
             Digits(input, p1, 10, [i \in 1 .. w |-> 0], FALSE))

\* strtoul from p0 on, after the whitespace: the sign
strtoul_sign(input, start, p0, w) ==
    strtoul_base(input, start, At(input, p0) = "-",
                 IF At(input, p0) \in {"+", "-"} THEN p0 + 1 ELSE p0, w)

\* strtoul(start, &end, 0): [end, erange, val]; end = start when nothing converts
strtoul(input, start, w) == strtoul_sign(input, start, SkipSpace(input, start), w)

\* What one pass of the while loop of parse does at pos: leave the loop
\* ("done"), return false ("fail"), or call op(a, b) and go on at next.
Item(kind, op, a, b, next) == [kind |-> kind, op |-> op, a |-> a, b |-> b, next |-> next]
ItemDone == Item("done", "none", 0, 0, 0)
ItemFail == Item("fail", "none", 0, 0, 0)

\* variant that takes a range for extended only when both ends are above
\* max_std_id
parse_range_nostraddle(input, id1, n2) ==
    IF U32Le(id1, max_std_id) /\ U32Le(n2.val, max_std_id)
    THEN Item("call", "add_std_range", U32Num(id1), U32Num(n2.val),
              SkipSeparators(input, n2.end))
    ELSE IF /\ ~U32Le(id1, max_std_id) /\ ~U32Le(n2.val, max_std_id)
            /\ U32Le(id1, max_ext_id) /\ U32Le(n2.val, max_ext_id)
    THEN Item("call", "add_ext_range", U32Num(id1), U32Num(n2.val),
              SkipSeparators(input, n2.end))
    ELSE ItemFail
\* lines 75-81 and 93-95: a range with both numbers read
parse_range(input, id1, n2) ==
    IF U32Le(id1, max_std_id) /\ U32Le(n2.val, max_std_id)
    THEN Item("call", "add_std_range", U32Num(id1), U32Num(n2.val),
              SkipSeparators(input, n2.end))
    ELSE IF U32Le(id1, max_ext_id) /\ U32Le(n2.val, max_ext_id)
    THEN Item("call", "add_ext_range", U32Num(id1), U32Num(n2.val),
              SkipSeparators(input, n2.end))
    ELSE ItemFail

\* lines 64-71: the second number of a range, read at p3
parse_second(input, id1, p3, n2) ==
    IF n2.end = p3 \/ n2.erange THEN ItemFail ELSE parse_range(input, id1, n2)

\* variant that takes max_std_id itself for extended
parse_single_strict(input, id1, p2) ==
    IF U32Le(id1, max_std_id - 1)
    THEN Item("call", "add_std_id", U32Num(id1), U32Num(id1), SkipSeparators(input, p2))
    ELSE IF U32Le(id1, max_ext_id)
    THEN Item("call", "add_ext_id", U32Num(id1), U32Num(id1), SkipSeparators(input, p2))
    ELSE ItemFail
\* lines 83-89 and 93-95: a single identifier
parse_single(input, id1, p2) ==
    IF U32Le(id1, max_std_id)
    THEN Item("call", "add_std_id", U32Num(id1), U32Num(id1), SkipSeparators(input, p2))
    ELSE IF U32Le(id1, max_ext_id)
    THEN Item("call", "add_ext_id", U32Num(id1), U32Num(id1), SkipSeparators(input, p2))
    ELSE ItemFail

\* lines 56-62: after the first number and the whitespace behind it, at p2
parse_dash(input, id1, p2, p3, w) ==
    IF p2 <= Len(input) /\ input[p2] = "-"
    THEN parse_second(input, id1, p3, strtoul(input, p3, w))
    ELSE parse_single(input, id1, p2)

\* lines 44-53: the first number, read at p1
parse_first(input, p1, n1, p2, w) ==
    IF n1.end = p1 \/ n1.erange
    THEN ItemFail
    ELSE parse_dash(input, n1.val, p2, SkipSpace(input, p2 + 1), w)

\* lines 35-42: at p1, behind the leading whitespace
parse_at(input, p1, n1, w) ==
    IF p1 > Len(input)
    THEN ItemDone
    ELSE parse_first(input, p1, n1, SkipSpace(input, n1.end), w)

\* one pass of the while loop of parse at pos
parse_item(input, pos, w) ==
    parse_at(input, SkipSpace(input, pos), strtoul(input, SkipSpace(input, pos), w), w)

(***************************************************************************)
(* The four concrete classes. The capacities are scaled (14 and 28 banks;  *)
(* 28/8 and 128/64 elements in the source).                                *)
(***************************************************************************)
BanksF0 == 2
BanksF4 == 3
StdG0 == 2
ExtG0 == 1
StdH7 == 3
ExtH7 == 2

canfilter_bxcan_f0(junk) == canfilter_bxcan(BanksF0, CANFILTER_DEV_BXCAN_F0, junk)
canfilter_bxcan_f4(junk) == canfilter_bxcan(BanksF4, CANFILTER_DEV_BXCAN_F4, junk)
canfilter_fdcan_g0(junk) == canfilter_fdcan(StdG0, ExtG0, CANFILTER_DEV_FDCAN_G0, junk)
canfilter_fdcan_h7(junk) == canfilter_fdcan(StdH7, ExtH7, CANFILTER_DEV_FDCAN_H7, junk)

\* values an uninitialised accumulator slot may hold
JunkVals == {0, max_ext_id + 1}

NullFilter == [kind |-> "null"]

NoCall == [op |-> "none", a |-> 0, b |-> 0, err |-> CANFILTER_SUCCESS]
NoEpisode == [begun |-> FALSE, ends |-> 0, allOk |-> TRUE, inSpace |-> TRUE, n |-> 0,
              begins |-> 0, dirs |-> <<>>,
              fresh |-> NullFilter, fresh_err |-> CANFILTER_SUCCESS]
NoRequest == [std |-> {}, ext |-> {}]
NoRange == [space |-> "none", a |-> 0, b |-> 0, pc |-> "idle", blocks |-> <<>>]
NoOrch == [pc |-> "idle", driver_name |-> "", filter_def |-> <<>>, pos |-> 0,
           hw_filter |-> 0, ret |-> FALSE, results |-> <<>>,
           ulong_limbs |-> 4, script |-> <<>>, calls |-> <<>>]
NoUsb == [handle_ |-> FALSE]
OrchIdle == orch = NoOrch /\ usb_device = NoUsb /\ log = <<>>

(***************************************************************************)
(* Range decomposition on its own: every pair of endpoints of both spaces  *)
(* is handed to the decomposition of add_std_range / add_ext_range.        *)
(***************************************************************************)
InitRange ==
    /\ filter = canfilter_bxcan_f0(0)
    /\ requested = NoRequest
    /\ episode = NoEpisode
    /\ lastCall = NoCall
    /\ OrchIdle
    /\ \/ \E a \in 0 .. max_std_id, b \in 0 .. max_std_id :
              rng = [space |-> "std", a |-> a, b |-> b, pc |-> "in", blocks |-> <<>>]
       \/ \E a \in 0 .. max_ext_id, b \in 0 .. max_ext_id :
              rng = [space |-> "ext", a |-> a, b |-> b, pc |-> "in", blocks |-> <<>>]

RangeStd ==
    /\ rng.pc = "in" /\ rng.space = "std"
    /\ rng' = [rng EXCEPT !.pc = "out", !.blocks = std_range_blocks(rng.a, rng.b)]
    /\ UNCHANGED <<filter, requested, episode, lastCall, orch, usb_device, log>>

RangeExt ==
    /\ rng.pc = "in" /\ rng.space = "ext"
    /\ rng' = [rng EXCEPT !.pc = "out", !.blocks = ext_range_blocks(rng.a, rng.b)]
    /\ UNCHANGED <<filter, requested, episode, lastCall, orch, usb_device, log>>

NextRange == RangeStd \/ RangeExt

SpecRange == InitRange /\ [][NextRange]_vars

RngMax == IF rng.space = "std" THEN max_std_id ELSE max_ext_id
RngBits == IF rng.space = "std" THEN StdBits ELSE ExtBits
RngLo == IF rng.a <= rng.b THEN rng.a ELSE rng.b
RngHi == IF rng.a <= rng.b THEN rng.b ELSE rng.a

\* the identifiers of a block: base .. (base | ~mask) & MAX
BlockIds(blk, max) == blk.id .. BitAnd(BitOr(blk.id, max - blk.mask), max)

RECURSIVE MinCoverTable(_, _, _)
MinCoverTable(w, lo, hi) ==
    IF lo > hi THEN (hi + 1) :> 0
    ELSE LET t  == MinCoverTable(w, lo + 1, hi)
             ks == {k \in 0 .. w : lo % (2 ^ k) = 0 /\ lo + 2 ^ k - 1 <= hi}
             c  == CHOOSE m \in {t[lo + 2 ^ k] : k \in ks} :
                       \A k \in ks : m <= t[lo + 2 ^ k]
         IN  t @@ (lo :> 1 + c)

MinCover(w, lo, hi) == MinCoverTable(w, lo, hi)[lo]

StdIdArgs == {0, 5, max_std_id, max_std_id + 1}
ExtIdArgs == {max_std_id + 1, max_ext_id, max_ext_id + 1}
StdRangeArgs == { <<0, max_std_id>>, <<1, max_std_id - 1>>, <<6, 3>>, <<1, 2>>,
                  <<0, max_std_id + 1>> }
ExtRangeArgs == { <<0, max_ext_id>>, <<1, max_ext_id - 1>>, <<max_std_id + 2, max_std_id>>,
                  <<max_ext_id + 1, 2>> }

InitBx ==
    /\ \E junk \in JunkVals : filter \in {canfilter_bxcan_f0(junk), canfilter_bxcan_f4(junk)}
    /\ requested = NoRequest
    /\ episode = NoEpisode
    /\ lastCall = NoCall
    /\ rng = NoRange
    /\ OrchIdle

InitFd ==
    /\ \E junk \in JunkVals : filter \in {canfilter_fdcan_g0(junk), canfilter_fdcan_h7(junk)}
    /\ requested = NoRequest
    /\ episode = NoEpisode
    /\ lastCall = NoCall
    /\ rng = NoRange
    /\ OrchIdle

Init == InitBx \/ InitFd

\* one call of the builder contract, by name
Apply(s, c) ==
    CASE c.op = "add_std_id" -> add_std_id(s, c.a)
      [] c.op = "add_ext_id" -> add_ext_id(s, c.a)
      [] c.op = "add_std_range" -> add_std_range(s, c.a, c.b)
      [] c.op = "add_ext_range" -> add_ext_range(s, c.a, c.b)
      [] c.op = "allow_all" -> allow_all(s)
      [] c.op = "end" -> end(s)
      [] c.op = "begin" -> begin(s)

\* a newly constructed object of the class of s
New(s, junk) ==
    IF s.kind = "bxcan"
    THEN canfilter_bxcan(s.max_banks, s.dev_val, junk)
    ELSE canfilter_fdcan(s.max_std_filter, s.max_ext_filter, s.dev_val, junk)

\* what the slots of the reference object hold before they are written
FreshJunk == max_ext_id + 1

\* the same call made on the object that was new at the latest begin()
OnFresh(op, a, b) == Apply(episode.fresh, [op |-> op, a |-> a, b |-> b])

\* bookkeeping of one add_* call with in-space identifiers ids and result r
Called(op, a, b, ids, isStd, r) ==
    /\ filter' = r.s
    /\ lastCall' = [op |-> op, a |-> a, b |-> b, err |-> r.err]
    /\ requested' = IF isStd THEN [requested EXCEPT !.std = @ \cup ids]
                             ELSE [requested EXCEPT !.ext = @ \cup ids]
    /\ episode' = [episode EXCEPT !.n = @ + 1,
                                  !.allOk = @ /\ r.err = CANFILTER_SUCCESS,
                                  !.inSpace = @ /\ ids # {},
                                  !.dirs = Append(@, [std |-> isStd, ids |-> ids]),
                                  !.fresh = OnFresh(op, a, b).s,
                                  !.fresh_err = OnFresh(op, a, b).err]
    /\ UNCHANGED <<rng, orch, usb_device, log>>

Span(a, b, max) == IF a > max \/ b > max THEN {} ELSE IF a <= b THEN a .. b ELSE b .. a

Begin ==
    /\ episode.n < MaxCalls
    /\ LET r == begin(filter) IN
       /\ filter' = r.s
       /\ lastCall' = [op |-> "begin", a |-> 0, b |-> 0, err |-> r.err]
       /\ requested' = NoRequest
       /\ episode' = [begun |-> TRUE, ends |-> 0, allOk |-> TRUE, inSpace |-> TRUE,
                       n |-> episode.n + 1,
                       begins |-> episode.begins + 1, dirs |-> <<>>,
                       fresh |-> begin(New(filter, FreshJunk)).s,
                       fresh_err |-> begin(New(filter, FreshJunk)).err]
    /\ UNCHANGED <<rng, orch, usb_device, log>>

AddStdId ==
    /\ episode.begun /\ episode.n < MaxCalls
    /\ \E id \in StdIdArgs :
           Called("add_std_id", id, id, Span(id, id, max_std_id), TRUE, add_std_id(filter, id))

AddExtId ==
    /\ episode.begun /\ episode.n < MaxCalls
    /\ \E id \in ExtIdArgs :
           Called("add_ext_id", id, id, Span(id, id, max_ext_id), FALSE, add_ext_id(filter, id))

AddStdRange ==
    /\ episode.begun /\ episode.n < MaxCalls
    /\ \E p \in StdRangeArgs :
           Called("add_std_range", p[1], p[2], Span(p[1], p[2], max_std_id), TRUE,
                  add_std_range(filter, p[1], p[2]))

AddExtRange ==
    /\ episode.begun /\ episode.n < MaxCalls
    /\ \E p \in ExtRangeArgs :
           Called("add_ext_range", p[1], p[2], Span(p[1], p[2], max_ext_id), FALSE,
                  add_ext_range(filter, p[1], p[2]))

\* allow_all(): the extended range is requested only when the standard one
\* returned Success
AllowAll ==
    /\ episode.begun /\ episode.n < MaxCalls
    /\ LET r == allow_all(filter)
           stdOk == add_std_range(filter, 0, max_std_id).err = CANFILTER_SUCCESS
       IN
       /\ filter' = r.s
       /\ lastCall' = [op |-> "allow_all", a |-> 0, b |-> 0, err |-> r.err]
       /\ requested' = [std |-> requested.std \cup (0 .. max_std_id),
                        ext |-> IF stdOk THEN requested.ext \cup (0 .. max_ext_id)
                                         ELSE requested.ext]
       /\ episode' = [episode EXCEPT
              !.n = @ + 1,
              !.allOk = @ /\ r.err = CANFILTER_SUCCESS,
              !.dirs = IF stdOk
                       THEN @ \o << [std |-> TRUE,  ids |-> 0 .. max_std_id],
                                     [std |-> FALSE, ids |-> 0 .. max_ext_id] >>
                       ELSE Append(@, [std |-> TRUE, ids |-> 0 .. max_std_id]),
              !.fresh = OnFresh("allow_all", 0, 0).s,
              !.fresh_err = OnFresh("allow_all", 0, 0).err]
    /\ UNCHANGED <<rng, orch, usb_device, log>>

End ==
    /\ episode.begun /\ episode.n < MaxCalls
    /\ LET r == end(filter) IN
       /\ filter' = r.s
       /\ lastCall' = [op |-> "end", a |-> 0, b |-> 0, err |-> r.err]
       /\ episode' = [episode EXCEPT !.n = @ + 1, !.ends = @ + 1,
                                     !.allOk = @ /\ r.err = CANFILTER_SUCCESS,
                                     !.fresh = OnFresh("end", 0, 0).s,
                                     !.fresh_err = OnFresh("end", 0, 0).err]
    /\ UNCHANGED <<requested, rng, orch, usb_device, log>>

Next == Begin \/ AddStdId \/ AddExtId \/ AddStdRange \/ AddExtRange \/ AllowAll \/ End

Spec == Init /\ [][Next]_vars
SpecBx == InitBx /\ [][Next]_vars
SpecFd == InitFd /\ [][Next]_vars

(***************************************************************************)
(* The transport (canfilter_usb) and the orchestrator (setHardwareFilter). *)
(* Each step of setHardwareFilter that talks to the outside is an action;  *)
(* what the outside answers (the name lookup, the open, the result and the *)
(* data of each control transfer) is chosen nondeterministically.          *)
(***************************************************************************)
GS_CAN_FEATURE_FILTER == 2 ^ 16
GS_USB_BREQ_BT_CONST == 4
GS_USB_BREQ_SET_FILTER == 15
GS_USB_BREQ_GET_FILTER == 16
sizeof_gs_device_capability == 40
sizeof_gs_filter_info == 4
LIBUSB_ERROR_TIMEOUT == 0 - 7

\* the filter texts handed to setHardwareFilter
FilterTexts ==
    { <<>>,
      <<"5">>,
      <<"1", "-", "6", "2">>,
      <<"0", "x", "3", "e", "-", "0", "x", "1", "1">>,
      <<" ", "1", ",", " ", "3", " ", ",", "0", "x", "2", "0", " ">>,
      <<"3", "2", "-", "3", "3", ",", "3", "5", "-", "3", "6", ",", "3", "8", "-", "3", "9", ",", "4", "1", "-", "4", "2", ",", "4", "4", "-", "4", "5">>,
      <<"1", " ", "2", " ", "3", " ", "4", " ", "5", " ", "6", " ", "7", " ", "8", " ", "9", " ", "1", "0", " ", "1", "1", " ", "1", "2", " ", "1", "3">>,
      <<"1", "-">>,
      <<"x">>,
      <<",">>,
      <<"5", ",", "2", "0", "0">>,
      <<"0", "x", "2", "0", "0", "0", "0", "0", "0", "0", "0">>,
      <<"1", "-", "0", "x", "2", "0", "0", "0", "0", "0", "0", "0", "0">> }

DriverNames == {"SocketCAN", "CandleAPI"}

\* results of libusb_control_transfer and the data the device may answer with
CapRets == {LIBUSB_ERROR_TIMEOUT, 0, 8, sizeof_gs_device_capability}
CapFeatures == {0, 1, GS_CAN_FEATURE_FILTER, GS_CAN_FEATURE_FILTER + 1}
InfoRets == {LIBUSB_ERROR_TIMEOUT, 2, sizeof_gs_filter_info}
InfoDevs == {0, 1, 2, 3, 4, 5, 255}
SetRets(size) == {LIBUSB_ERROR_TIMEOUT, 0, size - 4, size}

Event(ev, ret, data, len) == [ev |-> ev, ret |-> ret, data |-> data, len |-> len]

InitOrch ==
    /\ filter = NullFilter
    /\ requested = NoRequest
    /\ episode = NoEpisode
    /\ lastCall = NoCall
    /\ rng = NoRange
    /\ \E d \in DriverNames, f \in FilterTexts, w \in ULongLimbs :
           orch = [pc |-> "start", driver_name |-> d, filter_def |-> f, pos |-> 0,
                   hw_filter |-> 0, ret |-> FALSE, results |-> <<>>,
                   ulong_limbs |-> w, script |-> <<>>, calls |-> <<>>]
    /\ usb_device = NoUsb
    /\ log = <<>>

Return(b) == [orch EXCEPT !.pc = "done", !.ret = b]

\* canfilter_usb::hasHardwareFilter once the handle is there (the second is the
\* variant that accepts any feature word)
hasHardwareFilter_anyfeature(ret, feature) ==
    ret = sizeof_gs_device_capability
hasHardwareFilter(ret, feature) ==
    ret = sizeof_gs_device_capability /\ BitAnd(feature, GS_CAN_FEATURE_FILTER) # 0

\* canfilter_usb::getFilterInfo once the handle is there
getFilterInfo(ret, dev) == IF ret # sizeof_gs_filter_info THEN 0 ELSE dev

\* canfilter_usb::programFilter once the handle is there
programFilter(ret, size) == ret = size

\* the builder call parse() makes for an item
Call(s, it) ==
    CASE it.op = "add_std_id"    -> add_std_id(s, it.a)
      [] it.op = "add_ext_id"    -> add_ext_id(s, it.a)
      [] it.op = "add_std_range" -> add_std_range(s, it.a, it.b)
      [] it.op = "add_ext_range" -> add_ext_range(s, it.a, it.b)

\* lines 14-30: the driver name check and getUsbInfoFromDeviceName
Resolve ==
    /\ orch.pc = "start"
    /\ \E found \in BOOLEAN :
           orch' = IF orch.driver_name # "SocketCAN" \/ ~found
                   THEN Return(FALSE)
                   ELSE [orch EXCEPT !.pc = "open"]
    /\ UNCHANGED <<filter, requested, episode, lastCall, rng, usb_device, log>>

\* lines 32-35: usb_device.open(vendor_id, product_id, serial)
Open ==
    /\ orch.pc = "open"
    /\ \E ok \in BOOLEAN :
           /\ usb_device' = [usb_device EXCEPT !.handle_ = ok]
           /\ log' = Append(log, Event("open", IF ok THEN 1 ELSE 0, 0, 0))
           /\ orch' = IF ok THEN [orch EXCEPT !.pc = "hasHardwareFilter"] ELSE Return(FALSE)
    /\ UNCHANGED <<filter, requested, episode, lastCall, rng>>

\* lines 37-40: usb_device.hasHardwareFilter()
HasHardwareFilter ==
    /\ orch.pc = "hasHardwareFilter"
    /\ usb_device.handle_
    /\ \E ret \in CapRets, feature \in CapFeatures :
           /\ log' = Append(log, Event("BT_CONST", ret, feature, sizeof_gs_device_capability))
           /\ orch' = IF hasHardwareFilter(ret, feature)
                      THEN [orch EXCEPT !.pc = "getFilterInfo"]
                      ELSE Return(FALSE)
    /\ UNCHANGED <<filter, requested, episode, lastCall, rng, usb_device>>

\* the switch of lines 44-66
NewFilter(hw_filter) ==
    CASE hw_filter = CANFILTER_DEV_BXCAN_F0 -> {canfilter_bxcan_f0(j) : j \in JunkVals}
      [] hw_filter = CANFILTER_DEV_BXCAN_F4 -> {canfilter_bxcan_f4(j) : j \in JunkVals}
      [] hw_filter = CANFILTER_DEV_FDCAN_G0 -> {canfilter_fdcan_g0(j) : j \in JunkVals}
      [] hw_filter = CANFILTER_DEV_FDCAN_H7 -> {canfilter_fdcan_h7(j) : j \in JunkVals}
      [] OTHER -> {}

\* lines 42-66: usb_device.getFilterInfo() and the choice of the builder
GetFilterInfo ==
    /\ orch.pc = "getFilterInfo"
    /\ usb_device.handle_
    /\ \E ret \in InfoRets, dev \in InfoDevs :
           LET hw == getFilterInfo(ret, dev) IN
           /\ log' = Append(log, Event("GET_FILTER", ret, dev, sizeof_gs_filter_info))
           /\ IF NewFilter(hw) = {}
              THEN orch' = [Return(FALSE) EXCEPT !.hw_filter = hw] /\ filter' = filter
              ELSE /\ orch' = [orch EXCEPT !.pc = "begin", !.hw_filter = hw]
                   /\ filter' \in NewFilter(hw)
    /\ UNCHANGED <<requested, episode, lastCall, rng, usb_device>>

\* line 68: filter->begin(), its result dropped; parse() is entered
CompileBegin ==
    /\ orch.pc = "begin"
    /\ \E r \in {begin(filter)} :
           /\ filter' = r.s
           /\ orch' = [orch EXCEPT !.pc = "parse", !.pos = 1, !.results = <<r.err>>]
    /\ UNCHANGED <<requested, episode, lastCall, rng, usb_device, log>>

\* variant of the pass that goes on after a failure as if the text had ended
ParseStep_skipbad ==
    /\ orch.pc = "parse"
    /\ \E it \in {parse_item(orch.filter_def, orch.pos, orch.ulong_limbs)} :
           \/ /\ it.kind = "call"
              /\ \E r \in {Call(filter, it)} :
                     /\ filter' = r.s
                     /\ orch' = [orch EXCEPT
                            !.pos = it.next,
                            !.results = Append(@, r.err),
                            !.calls = Append(@, [op |-> it.op, a |-> it.a, b |-> it.b])]
              /\ log' = log
           \/ /\ it.kind \in {"done", "fail"}
              /\ orch' = [orch EXCEPT !.pc = "end"]
              /\ log' = Append(log, Event("parse", 1, 0, 0))
              /\ filter' = filter
    /\ UNCHANGED <<requested, episode, lastCall, rng, usb_device>>

\* lines 69-72: one pass of the while loop of parse(filter_def), the result of
\* its add_* call dropped; then parse's return
ParseStep ==
    /\ orch.pc = "parse"
    /\ \E it \in {parse_item(orch.filter_def, orch.pos, orch.ulong_limbs)} :
           \/ /\ it.kind = "call"
              /\ \E r \in {Call(filter, it)} :
                     /\ filter' = r.s
                     /\ orch' = [orch EXCEPT
                            !.pos = it.next,
                            !.results = Append(@, r.err),
                            !.calls = Append(@, [op |-> it.op, a |-> it.a, b |-> it.b])]
              /\ log' = log
           \/ /\ it.kind = "done"
              /\ orch' = [orch EXCEPT !.pc = "end"]
              /\ log' = Append(log, Event("parse", 1, 0, 0))
              /\ filter' = filter
           \/ /\ it.kind = "fail"
              /\ orch' = Return(FALSE)
              /\ log' = Append(log, Event("parse", 0, 0, 0))
              /\ filter' = filter
    /\ UNCHANGED <<requested, episode, lastCall, rng, usb_device>>

\* line 73: filter->end(), its result dropped
CompileEnd ==
    /\ orch.pc = "end"
    /\ \E r \in {end(filter)} :
           /\ filter' = r.s
           /\ orch' = [orch EXCEPT !.pc = "programFilter", !.results = Append(@, r.err)]
    /\ UNCHANGED <<requested, episode, lastCall, rng, usb_device, log>>

\* lines 75-82: usb_device.programFilter(get_hw_config(), get_hw_size())
ProgramFilter ==
    /\ orch.pc = "programFilter"
    /\ usb_device.handle_
    /\ \E ret \in SetRets(get_hw_size(filter)) :
           /\ log' = Append(log, Event("SET_FILTER", ret, filter.hw_config.dev,
                                       get_hw_size(filter)))
           /\ orch' = Return(programFilter(ret, get_hw_size(filter)))
    /\ UNCHANGED <<filter, requested, episode, lastCall, rng, usb_device>>

NextOrch ==
    \/ Resolve \/ Open \/ HasHardwareFilter \/ GetFilterInfo
    \/ CompileBegin \/ ParseStep \/ CompileEnd \/ ProgramFilter

SpecOrch == InitOrch /\ [][NextOrch]_vars

(***************************************************************************)
(* The parser on its own: filter texts written out from scripts of tokens, *)
(* each token one numeric literal or two with a dash, and parse() run on   *)
(* a builder that has begun.                                               *)
(***************************************************************************)
\* a numeric literal: its base and its digits, most significant first
Lit(base, digits) == [base |-> base, digits |-> digits]

DigitChars == <<"0", "1", "2", "3", "4", "5", "6", "7", "8", "9", "a", "b", "c", "d", "e", "f">>

RECURSIVE DigitsOf(_, _)
DigitsOf(n, base) ==
    IF n < base THEN <<n>> ELSE Append(DigitsOf(n \div base, base), n % base)

LitOf(n, base) == Lit(base, DigitsOf(n, base))

LitText(l) ==
    (IF l.base = 16 THEN <<"0", "x">> ELSE <<>>)
        \o [i \in 1 .. Len(l.digits) |-> DigitChars[l.digits[i] + 1]]

\* the number a literal denotes, or max_ext_id + 1 when it denotes more
RECURSIVE LitValueFrom(_, _, _)
LitValueFrom(v, digits, base) ==
    IF digits = <<>> THEN v
    ELSE LitValueFrom(IF v * base + Head(digits) > max_ext_id
                      THEN max_ext_id + 1
                      ELSE v * base + Head(digits),
                      Tail(digits), base)

LitValue(l) == LitValueFrom(0, l.digits, l.base)

TokenText(tok, dash) ==
    IF Len(tok) = 1 THEN LitText(tok[1]) ELSE LitText(tok[1]) \o dash \o LitText(tok[2])

RECURSIVE ScriptText(_, _, _)
ScriptText(script, sep, dash) ==
    IF script = <<>> THEN <<>>
    ELSE IF Len(script) = 1 THEN TokenText(script[1], dash)
    ELSE TokenText(script[1], dash) \o sep \o ScriptText(Tail(script), sep, dash)

ParseValues == {0, max_std_id, max_std_id + 1, max_ext_id, max_ext_id + 1}

\* 2^33, 2^32 + 3 and 2^64
HugeLits ==
    { Lit(16, <<2, 0, 0, 0, 0, 0, 0, 0, 0>>),
      Lit(10, <<4, 2, 9, 4, 9, 6, 7, 2, 9, 9>>),
      Lit(16, <<1, 0, 0, 0, 0, 0, 0, 0, 0, 0, 0, 0, 0, 0, 0, 0, 0>>) }

ParseLits == {LitOf(n, b) : n \in ParseValues, b \in {10, 16}} \cup HugeLits

FewLits == { LitOf(max_std_id, 16), LitOf(max_std_id + 1, 10),
             Lit(16, <<2, 0, 0, 0, 0, 0, 0, 0, 0>>) }

Scripts ==
    {<< <<l>> >> : l \in ParseLits}
        \cup {<< <<l1, l2>> >> : l1 \in ParseLits, l2 \in ParseLits}
        \cup {<< <<l1>>, <<l2, l3>> >> : l1 \in FewLits, l2 \in FewLits, l3 \in FewLits}
        \cup {<< <<l1, l2>>, <<l3>> >> : l1 \in FewLits, l2 \in FewLits, l3 \in FewLits}

Separators == { <<",">>, <<" ">>, <<" ", ",", "\t">> }
Dashes == { <<"-">>, <<" ", "-", "\n">> }

\* texts without any token
SeparatorTexts == { <<>>, <<" ">>, <<"\t", " ", "\n">>, <<",">>, <<",", ",">>, <<" ", ",">> }

ParseTexts ==
    {[script |-> s, text |-> ScriptText(s, sep, dash)] :
         s \in Scripts, sep \in Separators, dash \in Dashes}
        \cup {[script |-> <<>>, text |-> x] : x \in SeparatorTexts}

InitParse ==
    /\ filter \in {begin(canfilter_bxcan_f4(0)).s, begin(canfilter_fdcan_h7(0)).s}
    /\ requested = NoRequest
    /\ episode = NoEpisode
    /\ lastCall = NoCall
    /\ rng = NoRange
    /\ \E x \in ParseTexts, w \in ULongLimbs :
           orch = [pc |-> "parse", driver_name |-> "SocketCAN", filter_def |-> x.text,
                   pos |-> 1, hw_filter |-> filter.dev_val, ret |-> FALSE,
                   results |-> <<CANFILTER_SUCCESS>>,
                   ulong_limbs |-> w, script |-> x.script, calls |-> <<>>]
    /\ usb_device = NoUsb
    /\ log = <<>>

NextParse == ParseStep

SpecParse == InitParse /\ [][NextParse]_vars

(***************************************************************************)
(* What an image accepts. bxCAN: a 16-bit bank holds four 11-bit fields at *)
(* bits 5 and 21 of fr1 / fr2, a 32-bit bank one 29-bit field at bit 3 of  *)
(* each register. FDCAN: SFID1 / SFID2 at bits 16 and 0, the type at bit   *)
(* 30; EFID1 in word 0, EFID2 and the type in word 1.                      *)
(***************************************************************************)
StdField(r, sh) == Shr(r, sh) % 2 ^ 11
ExtField(r) == Shr(r, 3) % 2 ^ 29

BxBankEnabled(hw, i) == TestBit(hw.fa1r, i)
BxBank32(hw, i) == TestBit(hw.fs1r, i)
BxBankList(hw, i) == TestBit(hw.fm1r, i)

BxStdBankMatches(hw, i, x) ==
    /\ BxBankEnabled(hw, i) /\ ~BxBank32(hw, i)
    /\ IF BxBankList(hw, i)
       THEN x \in { StdField(hw.fr1[i], 5), StdField(hw.fr1[i], 21),
                    StdField(hw.fr2[i], 5), StdField(hw.fr2[i], 21) }
       ELSE \/ BitAnd(x, StdField(hw.fr1[i], 21))
                  = BitAnd(StdField(hw.fr1[i], 5), StdField(hw.fr1[i], 21))
            \/ BitAnd(x, StdField(hw.fr2[i], 21))
                  = BitAnd(StdField(hw.fr2[i], 5), StdField(hw.fr2[i], 21))

BxExtBankMatches(hw, i, x) ==
    /\ BxBankEnabled(hw, i) /\ BxBank32(hw, i)
    /\ IF BxBankList(hw, i)
       THEN x \in { ExtField(hw.fr1[i]), ExtField(hw.fr2[i]) }
       ELSE BitAnd(x, ExtField(hw.fr2[i])) = BitAnd(ExtField(hw.fr1[i]), ExtField(hw.fr2[i]))

BxMatchedStd(s) ==
    {x \in 0 .. max_std_id : \E i \in 0 .. s.max_banks - 1 : BxStdBankMatches(s.hw_config, i, x)}
BxMatchedExt(s) ==
    {x \in 0 .. max_ext_id : \E i \in 0 .. s.max_banks - 1 : BxExtBankMatches(s.hw_config, i, x)}

FdStdElemMatches(w, x) ==
    LET sft == Shr(w, 30) % 4  sfid1 == Shr(w, 16) % 2 ^ 11  sfid2 == w % 2 ^ 11
    IN  \/ sft = SFT_DUAL /\ x \in {sfid1, sfid2}
        \/ sft = SFT_RANGE /\ sfid1 <= x /\ x <= sfid2

FdExtElemMatches(w, x) ==
    LET eft == Shr(w[2], 30) % 4  efid1 == w[1] % 2 ^ 29  efid2 == w[2] % 2 ^ 29
    IN  \/ eft = EFT_DUAL /\ x \in {efid1, efid2}
        \/ eft = EFT_RANGE /\ efid1 <= x /\ x <= efid2

FdMatchedStd(s) ==
    {x \in 0 .. max_std_id : \E i \in 0 .. s.hw_config.std_filter_nbr - 1 :
                                 FdStdElemMatches(s.hw_config.std_filter[i], x)}
FdMatchedExt(s) ==
    {x \in 0 .. max_ext_id : \E i \in 0 .. s.hw_config.ext_filter_nbr - 1 :
                                 FdExtElemMatches(s.hw_config.ext_filter[i], x)}

\* a begin(), add_* calls that all returned Success, then one end() that
\* returned Success
CleanEpisodeEnded ==
    /\ episode.begun /\ episode.allOk /\ episode.ends = 1
    /\ lastCall.op = "end" /\ lastCall.err = CANFILTER_SUCCESS

\* C3: after a successful begin / add* / end episode on bxCAN the standard IDs
\* matched by the enabled 16-bit banks are exactly the standard IDs and ranges
\* passed in, and the extended IDs matched by the enabled 32-bit banks are
\* exactly the extended inputs.
C3_BxMatchExact ==
    (filter.kind = "bxcan" /\ CleanEpisodeEnded) =>
        /\ BxMatchedStd(filter) = requested.std
        /\ BxMatchedExt(filter) = requested.ext

\* a partially filled std-list accumulator (two entries) was flushed by end()
C3_Witness ==
    /\ filter.kind = "bxcan" /\ CleanEpisodeEnded
    /\ requested.ext # {}
    /\ \E i \in 0 .. filter.bank - 1 :
           LET hw == filter.hw_config IN
           /\ ~BxBank32(hw, i) /\ BxBankList(hw, i)
           /\ StdField(hw.fr1[i], 5) # StdField(hw.fr1[i], 21)
           /\ StdField(hw.fr2[i], 5) = StdField(hw.fr1[i], 5)
           /\ StdField(hw.fr2[i], 21) = StdField(hw.fr1[i], 5)
           /\ Cardinality(requested.std) = 2

StdDualWord(id1, id2) == 2 ^ 30 + 2 ^ 27 + id1 * 2 ^ 16 + id2
ExtDualWords(id1, id2) == <<2 ^ 29 + id1, 2 ^ 30 + id2>>

\* C4: after a successful begin / add* / end episode on FDCAN the IDs matched
\* by the first std_filter_nbr standard elements are exactly the standard
\* inputs, likewise for the first ext_filter_nbr extended elements; and an
\* end() that finds a singleton in a dual-ID accumulator emits a dual element
\* whose two IDs are both that singleton.
C4_Step ==
    /\ (filter'.kind = "fdcan" /\ CleanEpisodeEnded') =>
           /\ FdMatchedStd(filter') = requested'.std
           /\ FdMatchedExt(filter') = requested'.ext
    /\ (filter.kind = "fdcan" /\ lastCall'.op = "end" /\ lastCall'.err = CANFILTER_SUCCESS) =>
           /\ filter.std_id_count = 1 =>
                  filter'.hw_config.std_filter[filter.hw_config.std_filter_nbr]
                      = StdDualWord(filter.std_id[0], filter.std_id[0])
           /\ filter.ext_id_count = 1 =>
                  filter'.hw_config.ext_filter[filter.hw_config.ext_filter_nbr]
                      = ExtDualWords(filter.ext_id[0], filter.ext_id[0])

C4_FdMatchExact == [][C4_Step]_vars

\* one standard and one extended singleton, both flushed by end()
C4_Witness ==
    /\ filter.kind = "fdcan" /\ CleanEpisodeEnded
    /\ Cardinality(requested.std) = 1 /\ Cardinality(requested.ext) = 1
    /\ filter.hw_config.std_filter_nbr = 1 /\ filter.hw_config.ext_filter_nbr = 1
    /\ \E x \in requested.std : filter.hw_config.std_filter[0] = StdDualWord(x, x)
    /\ \E x \in requested.ext : filter.hw_config.ext_filter[0] = ExtDualWords(x, x)

\* C8: after begin(), whatever the add_* and end() calls returned, bank <= B,
\* FR1[i] and FR2[i] are zero for i >= bank, and the bits i >= bank of FA1R,
\* FS1R and FM1R are zero.
C8_BxImageInvariant ==
    (filter.kind = "bxcan" /\ episode.begun) =>
        LET hw == filter.hw_config IN
        /\ filter.bank <= filter.max_banks
        /\ \A i \in 0 .. filter.max_banks - 1 :
               i >= filter.bank => hw.fr1[i] = 0 /\ hw.fr2[i] = 0
        /\ hw.fa1r < 2 ^ filter.bank
        /\ hw.fs1r < 2 ^ filter.bank
        /\ hw.fm1r < 2 ^ filter.bank

\* end() itself returned Full on a full image
C8_Witness ==
    /\ filter.kind = "bxcan" /\ episode.begun
    /\ lastCall.op = "end" /\ lastCall.err = CANFILTER_ERROR_FULL
    /\ filter.bank = filter.max_banks
    /\ filter.hw_config.fa1r = 2 ^ filter.max_banks - 1

\* C9: after begin(), whatever the add_* and end() calls returned,
\* std_filter_nbr <= S and ext_filter_nbr <= E, std_filter[i] is zero for
\* i >= std_filter_nbr and both words of ext_filter[j] are zero for
\* j >= ext_filter_nbr.
C9_FdImageInvariant ==
    (filter.kind = "fdcan" /\ episode.begun) =>
        LET hw == filter.hw_config IN
        /\ hw.std_filter_nbr <= filter.max_std_filter
        /\ hw.ext_filter_nbr <= filter.max_ext_filter
        /\ \A i \in 0 .. filter.max_std_filter - 1 :
               i >= hw.std_filter_nbr => hw.std_filter[i] = 0
        /\ \A j \in 0 .. filter.max_ext_filter - 1 :
               j >= hw.ext_filter_nbr => hw.ext_filter[j] = <<0, 0>>

\* a call returned Full on a full standard table while the extended one has room
C9_Witness ==
    /\ filter.kind = "fdcan" /\ episode.begun
    /\ lastCall.err = CANFILTER_ERROR_FULL
    /\ filter.hw_config.std_filter_nbr = filter.max_std_filter
    /\ filter.hw_config.ext_filter_nbr < filter.max_ext_filter

(***************************************************************************)
(* Capacity exhaustion on bxCAN. A call attempts an emission while         *)
(* bank = B exactly when the same call on the same object with room to     *)
(* spare would leave more than B banks.                                    *)
(***************************************************************************)
RoomyBanks(s) == s.max_banks + 2 * ExtBits
Roomy(s) ==
    [s EXCEPT !.max_banks = RoomyBanks(s),
              !.hw_config.fr1 = [i \in 0 .. RoomyBanks(s) - 1 |->
                                     IF i < s.max_banks THEN s.hw_config.fr1[i] ELSE 0],
              !.hw_config.fr2 = [i \in 0 .. RoomyBanks(s) - 1 |->
                                     IF i < s.max_banks THEN s.hw_config.fr2[i] ELSE 0]]

OverCapacity(s, c) == Apply(Roomy(s), c).s.bank > s.max_banks

\* bank i of the image is the same before and after the step
BankKept(i) ==
    /\ filter'.hw_config.fr1[i] = filter.hw_config.fr1[i]
    /\ filter'.hw_config.fr2[i] = filter.hw_config.fr2[i]
    /\ TestBit(filter'.hw_config.fs1r, i) = TestBit(filter.hw_config.fs1r, i)
    /\ TestBit(filter'.hw_config.fm1r, i) = TestBit(filter.hw_config.fm1r, i)
    /\ TestBit(filter'.hw_config.fa1r, i) = TestBit(filter.hw_config.fa1r, i)

\* an add_std_* / add_ext_* or end() call on bxCAN in an episode whose arguments are all in-space
CapacityStep ==
    /\ filter.kind = "bxcan" /\ episode.begun /\ episode'.inSpace
    /\ lastCall'.op \notin {"begin", "allow_all"}

\* C10 as stated: a call that attempts an emission while bank = B returns
\* Full, a call that does not returns Success, and after a Full the image
\* equals the image before the call, apart from banks a range operation
\* emitted before reaching capacity.
C10_AsStated ==
    [][ CapacityStep =>
          /\ OverCapacity(filter, lastCall') => lastCall'.err = CANFILTER_ERROR_FULL
          /\ ~OverCapacity(filter, lastCall') => lastCall'.err = CANFILTER_SUCCESS
          /\ lastCall'.err = CANFILTER_ERROR_FULL =>
                 IF lastCall'.op \in {"add_std_range", "add_ext_range"}
                 THEN \A i \in 0 .. filter.bank - 1 : BankKept(i)
                 ELSE filter'.hw_config = filter.hw_config ]_vars

\* C10 (amended): a call that attempts an emission while bank = B returns
\* Full, a call that does not returns Success, and after a Full every bank
\* below the bank count before the call is unchanged, the banks from there up
\* to the new bank count are the ones the call (a range operation or end())
\* emitted before reaching capacity, and nothing is written beyond them.
C10_CapacityExhaustion ==
    [][ CapacityStep =>
          /\ OverCapacity(filter, lastCall') => lastCall'.err = CANFILTER_ERROR_FULL
          /\ ~OverCapacity(filter, lastCall') => lastCall'.err = CANFILTER_SUCCESS
          /\ lastCall'.err = CANFILTER_ERROR_FULL =>
                 /\ filter'.bank = filter.max_banks
                 /\ \A i \in 0 .. filter.bank - 1 : BankKept(i)
                 /\ \A i \in filter.bank .. filter.max_banks - 1 :
                        /\ filter'.hw_config.fr1[i] = Apply(Roomy(filter), lastCall').s.hw_config.fr1[i]
                        /\ filter'.hw_config.fr2[i] = Apply(Roomy(filter), lastCall').s.hw_config.fr2[i]
                 /\ filter'.hw_config.fa1r < 2 ^ filter.max_banks
                 /\ filter'.hw_config.fs1r < 2 ^ filter.max_banks
                 /\ filter'.hw_config.fm1r < 2 ^ filter.max_banks
                 /\ filter'.hw_config.dev = filter.hw_config.dev
                 /\ filter'.hw_config.ffa1r = filter.hw_config.ffa1r ]_vars

\* a range operation returned Full after emitting a bank, all earlier calls
\* having returned Success
C10_Witness ==
    /\ filter.kind = "bxcan" /\ episode.begun /\ episode.inSpace
    /\ lastCall.op = "add_std_range" /\ lastCall.err = CANFILTER_ERROR_FULL
    /\ filter.bank = filter.max_banks
    /\ episode.n >= 3

(***************************************************************************)
(* The orchestration: what the log of one setHardwareFilter call shows.    *)
(***************************************************************************)
SetFilters == {i \in DOMAIN log : log[i].ev = "SET_FILTER"}

StepFailed == \E i \in DOMAIN orch.results : orch.results[i] # CANFILTER_SUCCESS

\* C5: if begin(), an add_* call dispatched by the parser, or end() returned
\* a kind other than Success during setHardwareFilter, no SET_FILTER
\* transfer is sent and setHardwareFilter returns false.
C5_FailureAborts ==
    StepFailed => SetFilters = {} /\ (orch.pc = "done" => orch.ret = FALSE)

\* C6: an orchestration that returned true issued exactly one SET_FILTER,
\* of length get_hw_size() of the selected back-end and with first payload
\* byte equal to the identity the GET_FILTER probe returned; one that
\* returned false issued at most one SET_FILTER.
C6_OneSetFilter ==
    orch.pc = "done" =>
        /\ orch.ret =>
               /\ Cardinality(SetFilters) = 1
               /\ \A i \in SetFilters :
                      /\ log[i].len = get_hw_size(filter)
                      /\ \E k \in 1 .. i - 1 :
                             log[k].ev = "GET_FILTER" /\ log[i].data = log[k].data
        /\ ~orch.ret => Cardinality(SetFilters) <= 1

C6_Witness ==
    /\ orch.pc = "done" /\ orch.ret
    /\ Cardinality(SetFilters) = 1
    /\ filter.kind = "bxcan"
    /\ \E i \in SetFilters : log[i].data = CANFILTER_DEV_BXCAN_F4

CapOk(e) ==
    /\ e.ev = "BT_CONST" /\ e.ret = sizeof_gs_device_capability
    /\ (e.data \div GS_CAN_FEATURE_FILTER) % 2 = 1

IdOk(e) ==
    /\ e.ev = "GET_FILTER" /\ e.ret = sizeof_gs_filter_info
    /\ e.data \in {1, 2, 3, 4}

BadStep(e) ==
    \/ e.ev = "BT_CONST" /\ ~CapOk(e)
    \/ e.ev = "GET_FILTER" /\ ~IdOk(e)
    \/ e.ev = "parse" /\ e.ret = 0

\* C7: a SET_FILTER transfer comes only after, in this order, a successful
\* open, a full BT_CONST answer with feature bit 16 set, a full GET_FILTER
\* answer with an identity in {1,2,3,4} and a parse that returned true; and
\* when bit 16 is clear, a probe is short or fails, the identity is 0 or
\* unknown, or the parse fails, setHardwareFilter returns false without any
\* SET_FILTER.
C7_SetFilterGuarded ==
    /\ \A i \in SetFilters :
           \E o \in 1 .. i, c \in 1 .. i, g \in 1 .. i, q \in 1 .. i :
               /\ o < c /\ c < g /\ g < q /\ q < i
               /\ log[o].ev = "open" /\ log[o].ret = 1
               /\ CapOk(log[c])
               /\ IdOk(log[g])
               /\ log[q].ev = "parse" /\ log[q].ret = 1
    /\ (\E k \in DOMAIN log : BadStep(log[k])) =>
           SetFilters = {} /\ orch.pc = "done" /\ orch.ret = FALSE

C7_Witness ==
    /\ orch.pc = "done"
    /\ \E i \in SetFilters : log[i].ret # log[i].len
    /\ orch.hw_filter = CANFILTER_DEV_FDCAN_H7

(***************************************************************************)
(* The accumulators across end() and begin().                              *)
(***************************************************************************)
AccumulatorsEmpty(s) ==
    IF s.kind = "bxcan"
    THEN s.std_list_count = 0 /\ s.std_mask_count = 0 /\ s.ext_list_count = 0
    ELSE s.std_id_count = 0 /\ s.ext_id_count = 0

\* C11: after end() returns Success all accumulators are empty: the bxCAN
\* std_list_count, std_mask_count and ext_list_count are 0, and the FDCAN
\* std_id_count and ext_id_count are 0.
C11_EndEmptiesAccumulators ==
    (lastCall.op = "end" /\ lastCall.err = CANFILTER_SUCCESS) => AccumulatorsEmpty(filter)

\* the image is all-zero except the identity byte, and nothing is counted
ImageBlank(s) ==
    IF s.kind = "bxcan"
    THEN /\ s.bank = 0
         /\ s.hw_config.dev = s.dev_val
         /\ s.hw_config.reserved = <<0, 0, 0>>
         /\ s.hw_config.fs1r = 0 /\ s.hw_config.fm1r = 0
         /\ s.hw_config.ffa1r = 0 /\ s.hw_config.fa1r = 0
         /\ \A i \in 0 .. s.max_banks - 1 : s.hw_config.fr1[i] = 0 /\ s.hw_config.fr2[i] = 0
    ELSE /\ s.hw_config.dev = s.dev_val
         /\ s.hw_config.std_filter_nbr = 0 /\ s.hw_config.ext_filter_nbr = 0
         /\ s.hw_config.reserved = <<0>>
         /\ \A i \in 0 .. s.max_std_filter - 1 : s.hw_config.std_filter[i] = 0
         /\ \A i \in 0 .. s.max_ext_filter - 1 : s.hw_config.ext_filter[i] = <<0, 0>>

\* C12: begin() discards all prior state: from any reachable builder state
\* it returns Success and leaves the bank / element counts and all
\* accumulator counts at 0 and the image all-zero except the identity byte;
\* and every call made after it returns the same kind and leaves the same
\* image as the same calls made on an object that was new at that begin().
C12_BeginDiscards ==
    /\ lastCall.op = "begin" =>
           /\ lastCall.err = CANFILTER_SUCCESS
           /\ AccumulatorsEmpty(filter)
           /\ ImageBlank(filter)
    /\ episode.begun =>
           /\ filter.hw_config = episode.fresh.hw_config
           /\ lastCall.err = episode.fresh_err

\* begin(), a directive, begin() again, a directive: the object differs from
\* the new one in what its accumulator slots still hold
C12_Witness ==
    /\ episode.begins = 2 /\ episode.ends = 0 /\ episode.n = 4 /\ Len(episode.dirs) = 1
    /\ lastCall.op \in {"add_std_id", "add_ext_id"} /\ lastCall.err = CANFILTER_SUCCESS
    /\ filter # episode.fresh

(***************************************************************************)
(* The parser: what the calls parse() made say about the tokens it read.   *)
(***************************************************************************)
ParseTrue == orch.pc = "end"
ParseFalse == orch.pc = "done" /\ orch.ret = FALSE
ParseOver == ParseTrue \/ ParseFalse

SeparatorOnly(text) == \A i \in DOMAIN text : text[i] \in {" ", "\t", "\n", "\r", "\f", ","}

\* C13: the empty string, a string of only whitespace and a string of only
\* commas each make parse() return true with no builder call made.
C13_SeparatorOnlyAccepted ==
    (SeparatorOnly(orch.filter_def) /\ ParseOver) => (ParseTrue /\ orch.calls = <<>>)

\* every literal of the token denotes at most max_ext_id
TokenFits(tok) == \A i \in DOMAIN tok : LitValue(tok[i]) <= max_ext_id

\* the call the classification by magnitude asks for
TokenCall(tok) ==
    IF Len(tok) = 1
    THEN [op |-> IF LitValue(tok[1]) <= max_std_id THEN "add_std_id" ELSE "add_ext_id",
          a |-> LitValue(tok[1]), b |-> LitValue(tok[1])]
    ELSE [op |-> IF LitValue(tok[1]) <= max_std_id /\ LitValue(tok[2]) <= max_std_id
                 THEN "add_std_range" ELSE "add_ext_range",
          a |-> LitValue(tok[1]), b |-> LitValue(tok[2])]

FitsBefore(k) == \A j \in 1 .. k - 1 : TokenFits(orch.script[j])

\* C14: classification is by magnitude only, and exactly one builder call is
\* made per token, in text order: when every literal denotes at most
\* max_ext_id, parse() returns true and the calls are, token by token, the
\* standard call for values up to max_std_id and the extended call otherwise.
C14_ClassifiedByMagnitude ==
    (orch.script # <<>> /\ FitsBefore(Len(orch.script) + 1)) =>
        /\ Len(orch.calls) <= Len(orch.script)
        /\ \A i \in DOMAIN orch.calls : orch.calls[i] = TokenCall(orch.script[i])
        /\ ParseOver => ParseTrue /\ Len(orch.calls) = Len(orch.script)

C14_Witness ==
    /\ ParseTrue /\ Len(orch.script) = 2
    /\ orch.calls = << [op |-> "add_std_id", a |-> max_std_id, b |-> max_std_id],
                       [op |-> "add_ext_range", a |-> max_std_id, b |-> max_std_id + 1] >>

\* C15: every literal that denotes more than max_ext_id makes parse() return
\* false with no call made for its token.
C15_TooLargeRejected ==
    \A k \in DOMAIN orch.script :
        (FitsBefore(k) /\ ~TokenFits(orch.script[k])) =>
            /\ Len(orch.calls) < k
            /\ ParseOver => ParseFalse

\* the endpoints of the range lie on the two sides of max_std_id
Straddles(tok) ==
    /\ Len(tok) = 2 /\ TokenFits(tok)
    /\ (LitValue(tok[1]) <= max_std_id) # (LitValue(tok[2]) <= max_std_id)

\* C16 as stated: a range with one endpoint up to max_std_id and the other
\* above it makes parse() return false with no call made for its token.
C16_AsStated ==
    \A k \in DOMAIN orch.script :
        (FitsBefore(k) /\ Straddles(orch.script[k])) =>
            /\ Len(orch.calls) < k
            /\ ParseOver => ParseFalse

\* C16 (amended): a range with one endpoint up to max_std_id and the other
\* above it, up to max_ext_id, is accepted: parse() calls add_ext_range with
\* the two endpoints as written and goes on with the text.
C16_StraddleIsExtended ==
    \A k \in DOMAIN orch.script :
        (FitsBefore(k) /\ Straddles(orch.script[k])) =>
            /\ Len(orch.calls) >= k =>
                   orch.calls[k] = [op |-> "add_ext_range",
                                    a |-> LitValue(orch.script[k][1]),
                                    b |-> LitValue(orch.script[k][2])]
            /\ ParseOver => Len(orch.calls) >= k

C16_Witness ==
    /\ ParseTrue /\ Len(orch.script) = 1 /\ Straddles(orch.script[1])
    /\ orch.calls = << [op |-> "add_ext_range", a |-> max_ext_id, b |-> 0] >>

\* the banks (bxCAN) or the elements of the directive's table (FDCAN) that
\* hold an entry of directive d: those that match one of its identifiers
HoldersOf(s, d) ==
    IF s.kind = "bxcan"
    THEN {i \in 0 .. s.max_banks - 1 :
              \E x \in d.ids : IF d.std THEN BxStdBankMatches(s.hw_config, i, x)
                                        ELSE BxExtBankMatches(s.hw_config, i, x)}
    ELSE IF d.std
    THEN {i \in 0 .. s.hw_config.std_filter_nbr - 1 :
              \E x \in d.ids : FdStdElemMatches(s.hw_config.std_filter[i], x)}
    ELSE {i \in 0 .. s.hw_config.ext_filter_nbr - 1 :
              \E x \in d.ids : FdExtElemMatches(s.hw_config.ext_filter[i], x)}

\* two directives whose entries can be told apart in the image, and that
\* share an index space (all banks on bxCAN, one table on FDCAN)
Comparable(s, d1, d2) ==
    /\ d1.std # d2.std \/ d1.ids \cap d2.ids = {}
    /\ s.kind = "fdcan" => d1.std = d2.std

\* C17: after a successful begin / directives / end episode, every bank or
\* element that holds an entry of an earlier directive has an index less than
\* or equal to every bank or element that holds an entry of a later one.
C17_EmissionOrder ==
    CleanEpisodeEnded =>
        \A j \in 1 .. Len(episode.dirs), k \in 1 .. Len(episode.dirs) :
            (j < k /\ Comparable(filter, episode.dirs[j], episode.dirs[k])) =>
                \A i1 \in HoldersOf(filter, episode.dirs[j]),
                   i2 \in HoldersOf(filter, episode.dirs[k]) : i1 <= i2

(***************************************************************************)
(* usb_device: the libusb handle and the kernel driver of interface 0      *)
(* (built with USE_LINUX_KERNEL_DRIVER). The devices on the bus are        *)
(* numbered 1 .. NumDevs, handle_ = 0 is nullptr, kernel[d] says whether a *)
(* kernel driver is bound to interface 0 of device d. What libusb answers  *)
(* for a candidate is chosen nondeterministically; the log keeps the calls *)
(* that change the binding or the claim. serial is the text asked for (""  *)
(* for none); held describes the device behind handle_: its iSerialNumber  *)
(* index and the string read from it; len is what the latest read of a     *)
(* serial string returned, the index of the store buf[len] = 0.            *)
(***************************************************************************)
NumDevs == 2
MaxOpens == 2

UsbEvent(ev, dev) == [ev |-> ev, dev |-> dev]

\* the serial numbers asked for and the strings devices answer with
Serials == {"", "A1"}
SerialStrings == {"A1", "B2"}
NotHeld == [iSerialNumber |-> 0, sn |-> ""]

\* unsigned char buf[256]
sizeof_buf == 256

\* what libusb_get_string_descriptor_ascii(h, index, buf, sizeof(buf)) leaves
\* when it succeeds: the string and its length, at most sizeof(buf) - 1
\* ("long" stands for a string of that length)
StringsRead ==
    {[sn |-> s, len |-> Len(s)] : s \in SerialStrings}
        \cup {[sn |-> "long", len |-> sizeof_buf - 1]}

\* usb_device::usb_device: libusb_init may fail and leave context_ null
InitUsb ==
    /\ filter = NullFilter
    /\ requested = NoRequest
    /\ episode = NoEpisode
    /\ lastCall = NoCall
    /\ rng = NoRange
    /\ orch = NoOrch
    /\ \E ctx \in BOOLEAN, k \in [1 .. NumDevs -> BOOLEAN] :
           usb_device = [context_ |-> ctx, handle_ |-> 0, driver_detached_ |-> FALSE,
                         pc |-> "idle", i |-> 0, cnt |-> 0, kernel |-> k,
                         opens |-> 0, ret |-> FALSE, serial |-> "", held |-> NotHeld,
                         len |-> 0]
    /\ log = <<>>

\* usb_device::close, on the object u and the log l
close(u, l) ==
    IF u.handle_ # 0
    THEN [u |-> [u EXCEPT !.handle_ = 0, !.driver_detached_ = FALSE, !.held = NotHeld,
                          !.kernel = IF u.driver_detached_
                                     THEN [u.kernel EXCEPT ![u.handle_] = TRUE]
                                     ELSE u.kernel],
          l |-> l \o <<UsbEvent("release", u.handle_)>>
                  \o (IF u.driver_detached_ THEN <<UsbEvent("attach", u.handle_)>> ELSE <<>>)
                  \o <<UsbEvent("close", u.handle_)>>]
    ELSE [u |-> u, l |-> l]

\* lines 61-69: close(), the context test, libusb_get_device_list
OpenVidPid ==
    /\ usb_device.pc = "idle" /\ usb_device.opens < MaxOpens
    /\ \E serial \in Serials :
       LET c == close(usb_device, log)
           u == [c.u EXCEPT !.opens = @ + 1, !.serial = serial]
       IN
       /\ log' = c.l
       /\ IF ~u.context_
          THEN usb_device' = [u EXCEPT !.ret = FALSE]
          ELSE \E cnt \in (0 - 1) .. NumDevs :
                   usb_device' = IF cnt < 0
                                 THEN [u EXCEPT !.ret = FALSE]
                                 ELSE [u EXCEPT !.pc = "loop", !.i = 0, !.cnt = cnt]
    /\ UNCHANGED <<filter, requested, episode, lastCall, rng, orch>>

\* lines 72-83 and 85-92: a candidate that is passed over: no descriptor,
\* another VID:PID, libusb_open fails, or the serial string that was read
\* (len >= 0) differs from the one asked for
CandidateSkipped ==
    /\ usb_device.pc = "loop" /\ usb_device.i < usb_device.cnt
    /\ \/ /\ usb_device' = [usb_device EXCEPT !.i = @ + 1]
          /\ log' = log
       \/ /\ usb_device.serial # ""
          /\ \E rd \in StringsRead :
                 /\ rd.sn # usb_device.serial
                 /\ usb_device' = [usb_device EXCEPT !.i = @ + 1, !.len = rd.len]
                 /\ log' = log \o <<UsbEvent("open", usb_device.i + 1),
                                    UsbEvent("close", usb_device.i + 1)>>
    /\ UNCHANGED <<filter, requested, episode, lastCall, rng, orch>>

\* lines 85-92 with len < 0: the string descriptor of a candidate with
\* iSerialNumber > 0 cannot be read, and buf[len] = 0 is a store before the
\* start of buf. The store is undefined behaviour: either the candidate is
\* passed over as written, or the process does not survive it.
CandidateUnreadable ==
    /\ usb_device.pc = "loop" /\ usb_device.i < usb_device.cnt
    /\ usb_device.serial # ""
    /\ \/ /\ usb_device' = [usb_device EXCEPT !.i = @ + 1, !.len = LIBUSB_ERROR_TIMEOUT]
          /\ log' = log \o <<UsbEvent("open", usb_device.i + 1),
                             UsbEvent("close", usb_device.i + 1)>>
       \/ /\ usb_device' = [usb_device EXCEPT !.pc = "aborted",
                                              !.len = LIBUSB_ERROR_TIMEOUT]
          /\ log' = log \o <<UsbEvent("open", usb_device.i + 1)>>
    /\ UNCHANGED <<filter, requested, episode, lastCall, rng, orch>>

\* lines 85 and 95-114: a candidate with the VID:PID asked for that was opened
\* and got past the serial test (no serial asked for, iSerialNumber == 0, or
\* the string read equals the serial): its kernel driver and the claim of
\* interface 0, which cannot succeed while a kernel driver is bound
CandidateOpened ==
    /\ usb_device.pc = "loop" /\ usb_device.i < usb_device.cnt
    /\ LET dev == usb_device.i + 1 IN
       \E iSerialNumber \in {0, 1}, sn \in SerialStrings,
          detach_ok \in BOOLEAN, claim_ok \in BOOLEAN :
           LET compared == usb_device.serial # "" /\ iSerialNumber > 0
               detached == usb_device.kernel[dev] /\ detach_ok
               bound == usb_device.kernel[dev] /\ ~detach_ok
               claimed == claim_ok /\ ~bound
               u1 == [usb_device EXCEPT !.driver_detached_ = detached,
                                        !.kernel[dev] = bound,
                                        !.len = IF compared THEN Len(sn) ELSE @]
               l1 == log \o <<UsbEvent("open", dev)>>
                         \o (IF detached THEN <<UsbEvent("detach", dev)>> ELSE <<>>)
           IN  /\ compared => sn = usb_device.serial
               /\ IF claimed
                  THEN /\ usb_device' =
                              [u1 EXCEPT !.handle_ = dev, !.pc = "idle", !.ret = TRUE,
                                         !.held = [iSerialNumber |-> iSerialNumber,
                                                   sn |-> IF iSerialNumber > 0 THEN sn ELSE ""]]
                       /\ log' = l1 \o <<UsbEvent("claim", dev)>>
                  ELSE /\ usb_device' = [u1 EXCEPT !.i = @ + 1]
                       /\ log' = l1 \o <<UsbEvent("close", dev)>>
    /\ UNCHANGED <<filter, requested, episode, lastCall, rng, orch>>

\* lines 71 and 117-118: the list is exhausted
LoopExit ==
    /\ usb_device.pc = "loop" /\ usb_device.i >= usb_device.cnt
    /\ usb_device' = [usb_device EXCEPT !.pc = "idle", !.ret = usb_device.handle_ # 0]
    /\ UNCHANGED <<filter, requested, episode, lastCall, rng, orch, log>>

\* usb_device::close called on an open device
Close ==
    /\ usb_device.pc = "idle" /\ usb_device.handle_ # 0
    /\ usb_device' = close(usb_device, log).u
    /\ log' = close(usb_device, log).l
    /\ UNCHANGED <<filter, requested, episode, lastCall, rng, orch>>

\* usb_device::~usb_device
Destroy ==
    /\ usb_device.pc = "idle"
    /\ usb_device' = [close(usb_device, log).u EXCEPT !.pc = "destroyed", !.context_ = FALSE]
    /\ log' = close(usb_device, log).l
    /\ UNCHANGED <<filter, requested, episode, lastCall, rng, orch>>

NextUsb ==
    OpenVidPid \/ CandidateSkipped \/ CandidateUnreadable \/ CandidateOpened
        \/ LoopExit \/ Close \/ Destroy

SpecUsb == InitUsb /\ [][NextUsb]_vars

\* the detach at position j of the log is followed by an attach on that device
Reattached(j) ==
    \E k \in DOMAIN log : k > j /\ log[k] = UsbEvent("attach", log[j].dev)

\* C18: when the usb_device object is destroyed, every successful detach of
\* the kernel driver made by open_vid_pid has been followed by a reattach on
\* the same device, also when the claim of interface 0 failed after the
\* detach and when a further candidate was examined after that.
C18_DetachReattachPaired ==
    usb_device.pc = "destroyed" =>
        \A j \in DOMAIN log : log[j].ev = "detach" => Reattached(j)

\* the standard / extended identifiers an image accepts, on either back-end
AcceptedStd(s) == IF s.kind = "bxcan" THEN BxMatchedStd(s) ELSE FdMatchedStd(s)
AcceptedExt(s) == IF s.kind = "bxcan" THEN BxMatchedExt(s) ELSE FdMatchedExt(s)

\* the first episode was begin(); allow_all(); end(), all returning Success
AllowAllEpisode ==
    /\ CleanEpisodeEnded
    /\ episode.begins = 1 /\ episode.n = 3 /\ Len(episode.dirs) = 2

\* an accepted everything-image after begin(); allow_all(); end()
AllowAllImage ==
    AllowAllEpisode =>
        /\ AcceptedStd(filter) = 0 .. max_std_id
        /\ AcceptedExt(filter) = 0 .. max_ext_id

\* C19 as stated: from every builder state allow_all() leaves the state that
\* add_std_range(0, max_std_id) followed by add_ext_range(0, max_ext_id)
\* leaves, and after begin(); allow_all(); end() the image matches every
\* standard and every extended identifier.
C19_AsStated ==
    [][/\ lastCall'.op = "allow_all" =>
              filter' = add_ext_range(add_std_range(filter, 0, max_std_id).s, 0, max_ext_id).s
       /\ AllowAllImage']_vars

\* C19: allow_all() is add_std_range(0, max_std_id) and, only when that
\* returned Success, add_ext_range(0, max_ext_id) on the state it left; when
\* the standard range fails allow_all() returns its error and leaves the
\* state the standard range left. After begin(); allow_all(); end() the
\* image matches every standard and every extended identifier.
C19_AllowAllStopsAtFailure ==
    [][/\ lastCall'.op = "allow_all" =>
              LET r1 == add_std_range(filter, 0, max_std_id)
                  r2 == add_ext_range(r1.s, 0, max_ext_id)
              IN  IF r1.err = CANFILTER_SUCCESS
                  THEN filter' = r2.s /\ lastCall'.err = r2.err
                  ELSE filter' = r1.s /\ lastCall'.err = r1.err
       /\ AllowAllImage']_vars

\* allow_all() returned Full from the standard table while the extended range
\* would have fitted
C19_Witness ==
    /\ filter.kind = "fdcan"
    /\ lastCall.op = "allow_all" /\ lastCall.err = CANFILTER_ERROR_FULL
    /\ filter.hw_config.std_filter_nbr = filter.max_std_filter
    /\ add_ext_range(filter, 0, max_ext_id).err = CANFILTER_SUCCESS

\* the range call just made, with its endpoints exchanged, on the state before
Reversed ==
    IF lastCall'.op = "add_std_range"
    THEN add_std_range(filter, lastCall'.b, lastCall'.a)
    ELSE add_ext_range(filter, lastCall'.b, lastCall'.a)

InSpace(c) ==
    IF c.op = "add_std_range" THEN c.a <= max_std_id /\ c.b <= max_std_id
                              ELSE c.a <= max_ext_id /\ c.b <= max_ext_id

\* C20: on both back-ends and from every builder state, add_std_range(a, b)
\* and add_std_range(b, a) return the same kind and leave the same builder
\* state, likewise add_ext_range; with both endpoints in the space neither
\* order returns Param.
C20_EndpointsEitherOrder ==
    [][lastCall'.op \in {"add_std_range", "add_ext_range"} =>
           /\ filter' = Reversed.s
           /\ lastCall'.err = Reversed.err
           /\ InSpace(lastCall') => lastCall'.err # CANFILTER_ERROR_PARAM]_vars

\* a range given with the larger endpoint first was emitted as an FDCAN range
\* element that accepts both endpoints
C20_Witness ==
    /\ lastCall.op \in {"add_std_range", "add_ext_range"}
    /\ lastCall.a > lastCall.b
    /\ lastCall.err = CANFILTER_SUCCESS
    /\ filter.kind = "fdcan"
    /\ IF lastCall.op = "add_std_range"
       THEN {lastCall.a, lastCall.b} \subseteq FdMatchedStd(filter)
       ELSE {lastCall.a, lastCall.b} \subseteq FdMatchedExt(filter)

\* the register of a 16-bit list bank that holds x in both halves
StdListReg(x) == BitOr(Shl(x, 21), Shl(x, 5))

\* the image of one list bank that holds x four times, and nothing else
LoneStdListImage(s, x) ==
    /\ s.bank = 1
    /\ s.hw_config.fa1r = 1 /\ s.hw_config.fs1r = 0 /\ s.hw_config.fm1r = 1
    /\ s.hw_config.fr1[0] = StdListReg(x)
    /\ s.hw_config.fr2[0] = StdListReg(x)

\* the episode was begin(); one call for a single standard identifier; end()
LoneStdIdEpisode ==
    /\ filter.kind = "bxcan" /\ CleanEpisodeEnded
    /\ episode.n = 3 /\ episode.begins = 1 /\ Len(episode.dirs) = 1
    /\ episode.dirs[1].std /\ Cardinality(episode.dirs[1].ids) = 1

\* C21: on bxCAN, begin(); add_std_id(x); end() for any x <= max_std_id leaves
\* bank = 1, FA1R = 1, FS1R = 0, FM1R = 1 and FR1[0] = FR2[0] =
\* (x << 21) | (x << 5); for x = 0x100 that register value is 0x20002000.
C21_LoneStdIdBank ==
    /\ LoneStdIdEpisode => \A x \in episode.dirs[1].ids : LoneStdListImage(filter, x)
    /\ (filter.kind = "bxcan" /\ lastCall.op = "begin") =>
           \A x \in 0 .. max_std_id :
               \A r1 \in {add_std_id(filter, x)} : \A r2 \in {end(r1.s)} :
                   /\ r1.err = CANFILTER_SUCCESS /\ r2.err = CANFILTER_SUCCESS
                   /\ LoneStdListImage(r2.s, x)
    /\ StdListReg(256) = 536879104

\* a lone nonzero identifier went through begin(); add_std_id(); end()
C21_Witness ==
    /\ LoneStdIdEpisode
    /\ lastCall.op = "end"
    /\ episode.dirs[1].ids = {5}
    /\ filter.hw_config.fr1[0] = 10485920

\* the range handed to the decomposition is one aligned block of size 2^k
AlignedBlock(k) == RngLo % (2 ^ k) = 0 /\ RngHi = RngLo + 2 ^ k - 1

\* a bxCAN image that is one 16-bit mask bank with the pair (id, mask) twice
LoneStdMaskImage(s, id, mask) ==
    /\ s.bank = 1
    /\ s.hw_config.fa1r = 1 /\ s.hw_config.fs1r = 0 /\ s.hw_config.fm1r = 0
    /\ s.hw_config.fr1[0] = BitOr(Shl(mask, 21), Shl(id, 5))
    /\ s.hw_config.fr2[0] = BitOr(Shl(mask, 21), Shl(id, 5))

\* C22: for every k in 0 .. W and every base that is a multiple of 2^k with
\* base + 2^k - 1 <= MAX, the bxCAN range operation on base .. base + 2^k - 1
\* produces exactly one block: a list entry when k = 0, otherwise the mask
\* entry (base, MAX with its low k bits cleared); for a standard block with
\* k > 0, begin / range / end leaves one 16-bit mask bank with that pair
\* replicated (FS1R = 0, FM1R = 0, FA1R = 1). With 11 bits the masks of
\* 0x000-0x0FF and 0x000-0x1FF are 0x700 and 0x600, and 0x700 << 21 is
\* 0xE0000000 (upper half 0xE000).
C22_AlignedBlockOneEntry ==
    /\ rng.pc = "out" =>
           \A k \in 0 .. RngBits :
               AlignedBlock(k) =>
                   /\ rng.blocks = << [list |-> (k = 0), id |-> RngLo,
                                       mask |-> HighMask(RngBits, k)] >>
                   /\ (rng.space = "std" /\ k > 0) =>
                          LET r1 == add_std_range(begin(filter).s, rng.a, rng.b)
                              r2 == end(r1.s)
                          IN  /\ r1.err = CANFILTER_SUCCESS /\ r2.err = CANFILTER_SUCCESS
                              /\ LoneStdMaskImage(r2.s, RngLo, HighMask(StdBits, k))
    /\ HighMask(11, 8) = 1792 /\ HighMask(11, 9) = 1536
    /\ Shl(HighMask(11, 8), 21 - 16) = 57344

\* the lowest block that leaves the top three bits in the mask (0x000-0x0FF
\* in the 11-bit space) came out as one mask entry
C22_Witness ==
    /\ rng.pc = "out" /\ rng.space = "std"
    /\ rng.a = 0 /\ rng.b = 2 ^ (StdBits - 3) - 1
    /\ rng.blocks = << [list |-> FALSE, id |-> 0, mask |-> HighMask(StdBits, StdBits - 3)] >>

\* (1 << 30) | (1 << 27) | (a << 16) | b
StdDualEncoding(a, b) ==
    BitOr(BitOr(Shl(SFT_DUAL, 30), Shl(SFEC_RX_FIFO0, 27)), BitOr(Shl(a, 16), b))

\* what two successive successful add_std_id calls do to an FDCAN object whose
\* standard accumulator was empty, and what end() does when nothing is pending
PairStep ==
    /\ (filter'.kind = "fdcan" /\ lastCall'.op = "add_std_id"
            /\ lastCall'.err = CANFILTER_SUCCESS /\ filter.std_id_count = 0) =>
           /\ filter'.hw_config = filter.hw_config
           /\ filter'.std_id_count = 1 /\ filter'.std_id[0] = lastCall'.a
    /\ (filter'.kind = "fdcan" /\ lastCall'.op = "add_std_id"
            /\ lastCall'.err = CANFILTER_SUCCESS /\ filter.std_id_count = 1) =>
           /\ filter'.hw_config.std_filter_nbr = filter.hw_config.std_filter_nbr + 1
           /\ filter'.hw_config.std_filter =
                  [filter.hw_config.std_filter EXCEPT ![filter.hw_config.std_filter_nbr] =
                       StdDualEncoding(filter.std_id[0], lastCall'.a)]
           /\ filter'.hw_config.ext_filter = filter.hw_config.ext_filter
           /\ filter'.hw_config.ext_filter_nbr = filter.hw_config.ext_filter_nbr
           /\ filter'.std_id_count = 0
    /\ (filter'.kind = "fdcan" /\ lastCall'.op = "end"
            /\ filter.std_id_count = 0 /\ filter.ext_id_count = 0) =>
           filter'.hw_config = filter.hw_config

\* C23 as stated: two successive add_std_id(a), add_std_id(b) on an empty
\* standard accumulator emit one element (1<<30)|(1<<27)|(a<<16)|b and raise
\* std_filter_nbr by one; for "0x100 0x200" the word is 0x48100200.
C23_AsStated ==
    [][PairStep /\ StdDualEncoding(256, 512) = 1209008640]_vars

\* C23: two successive successful add_std_id(a), add_std_id(b) on an FDCAN
\* object whose standard accumulator is empty emit exactly one standard
\* element, (1<<30)|(1<<27)|(a<<16)|b, at index std_filter_nbr, which grows by
\* one; end() with nothing pending adds nothing. For a = 0x100, b = 0x200 the
\* word is 0x49000200.
C23_PairIsOneDualElement ==
    [][PairStep /\ StdDualEncoding(256, 512) = 1224737280]_vars

\* two different identifiers were paired into element 0
C23_Witness ==
    /\ filter.kind = "fdcan"
    /\ lastCall.op = "add_std_id" /\ lastCall.err = CANFILTER_SUCCESS
    /\ filter.std_id_count = 0 /\ filter.hw_config.std_filter_nbr = 1
    /\ \E a \in 0 .. max_std_id :
           a # lastCall.a /\ filter.hw_config.std_filter[0] = StdDualEncoding(a, lastCall.a)

\* the bit fields of a standard element word and of an extended element
StdFields(w) ==
    [sft |-> Shr(w, 30) % 4, sfec |-> Shr(w, 27) % 8, sfid1 |-> Shr(w, 16) % 2 ^ 11,
     gap |-> Shr(w, 11) % 32, sfid2 |-> w % 2 ^ 11]
ExtFields(e) ==
    [efec |-> Shr(e[1], 29) % 8, efid1 |-> e[1] % 2 ^ 29,
     eft |-> Shr(e[2], 30) % 4, bit29 |-> Shr(e[2], 29) % 2, efid2 |-> e[2] % 2 ^ 29]

Lower(a, b) == IF a <= b THEN a ELSE b
Upper(a, b) == IF a <= b THEN b ELSE a

\* the type and the two identifiers the call just made hands to a standard
\* element: the pending pair for add_std_id and end(), the ordered endpoints
\* for a range
StdInputs ==
    CASE lastCall'.op = "add_std_id" ->
             [t |-> SFT_DUAL, id1 |-> filter.std_id[0], id2 |-> lastCall'.a]
      [] lastCall'.op = "end" ->
             [t |-> SFT_DUAL, id1 |-> filter.std_id[0], id2 |-> filter.std_id[1]]
      [] lastCall'.op = "add_std_range" ->
             [t |-> SFT_RANGE, id1 |-> Lower(lastCall'.a, lastCall'.b),
              id2 |-> Upper(lastCall'.a, lastCall'.b)]
      [] OTHER -> [t |-> SFT_RANGE, id1 |-> 0, id2 |-> max_std_id]
ExtInputs ==
    CASE lastCall'.op = "add_ext_id" ->
             [t |-> EFT_DUAL, id1 |-> filter.ext_id[0], id2 |-> lastCall'.a]
      [] lastCall'.op = "end" ->
             [t |-> EFT_DUAL, id1 |-> filter.ext_id[0], id2 |-> filter.ext_id[1]]
      [] lastCall'.op = "add_ext_range" ->
             [t |-> EFT_RANGE, id1 |-> Lower(lastCall'.a, lastCall'.b),
              id2 |-> Upper(lastCall'.a, lastCall'.b)]
      [] OTHER -> [t |-> EFT_RANGE, id1 |-> 0, id2 |-> max_ext_id]

C24_Step ==
    (filter'.kind = "fdcan" /\ lastCall'.op # "begin") =>
        LET hw == filter.hw_config
            hw2 == filter'.hw_config
        IN
        /\ \A i \in hw.std_filter_nbr .. hw2.std_filter_nbr - 1 :
               LET f == StdFields(hw2.std_filter[i]) IN
               /\ f.sft = StdInputs.t /\ f.sfid1 = StdInputs.id1 /\ f.sfid2 = StdInputs.id2
               /\ f.sfec = 1 /\ f.gap = 0
               /\ f.sft = SFT_RANGE => f.sfid1 <= f.sfid2
        /\ \A i \in hw.ext_filter_nbr .. hw2.ext_filter_nbr - 1 :
               LET f == ExtFields(hw2.ext_filter[i]) IN
               /\ f.eft = ExtInputs.t /\ f.efid1 = ExtInputs.id1 /\ f.efid2 = ExtInputs.id2
               /\ f.efec = 1 /\ f.bit29 = 0
               /\ f.eft = EFT_RANGE => f.efid1 <= f.efid2
        \* a pending identifier is the one passed in, in both slots
        /\ (lastCall'.op = "add_std_id" /\ lastCall'.err = CANFILTER_SUCCESS
                /\ filter'.std_id_count = 1) =>
               filter'.std_id[0] = lastCall'.a /\ filter'.std_id[1] = lastCall'.a
        /\ (lastCall'.op = "add_ext_id" /\ lastCall'.err = CANFILTER_SUCCESS
                /\ filter'.ext_id_count = 1) =>
               filter'.ext_id[0] = lastCall'.a /\ filter'.ext_id[1] = lastCall'.a
        \* a range is one element, at once, and touches no accumulator
        /\ (lastCall'.op = "add_std_range" /\ lastCall'.err = CANFILTER_SUCCESS) =>
               /\ hw2.std_filter_nbr = hw.std_filter_nbr + 1
               /\ hw2.ext_filter_nbr = hw.ext_filter_nbr
               /\ filter'.std_id_count = filter.std_id_count
        /\ (lastCall'.op = "add_ext_range" /\ lastCall'.err = CANFILTER_SUCCESS) =>
               /\ hw2.ext_filter_nbr = hw.ext_filter_nbr + 1
               /\ hw2.std_filter_nbr = hw.std_filter_nbr
               /\ filter'.ext_id_count = filter.ext_id_count

\* C24: the bit fields of every emitted FDCAN element give back what was
\* passed in. Standard word: bits 26:16 and 10:0 are the two identifiers
\* (dual) or the ordered endpoints (range), bits 31:30 are 1 for dual and 0
\* for range, bits 29:27 are 1, bits 15:11 are 0. Extended element: bits 28:0
\* of the two words are the inputs, bits 31:29 of word 0 are 1, bits 31:30 of
\* word 1 are 1 for dual and 0 for range, bit 29 of word 1 is 0. A range is
\* one element, emitted by the call itself; for 0x1FFF0000-0x1FFFFFFF word 0
\* is 0x3FFF0000 and word 1 is 0x1FFFFFFF.
C24_FdEncodingRoundTrip ==
    [][/\ C24_Step
       /\ BitOr(Shl(EFEC_RX_FIFO0, 29), 536805376) = 1073676288
       /\ BitOr(Shl(EFT_RANGE, 30), 536870911) = 536870911]_vars

\* a reversed extended range was emitted as the newest extended element, after
\* a standard dual element
C24_Witness ==
    /\ filter.kind = "fdcan"
    /\ lastCall.op = "add_ext_range" /\ lastCall.err = CANFILTER_SUCCESS
    /\ lastCall.a > lastCall.b
    /\ filter.hw_config.ext_filter_nbr = 1 /\ filter.hw_config.std_filter_nbr = 1
    /\ ExtFields(filter.hw_config.ext_filter[0]).efid1 = lastCall.b
    /\ ExtFields(filter.hw_config.ext_filter[0]).efid2 = lastCall.a
    /\ StdFields(filter.hw_config.std_filter[0]).sft = SFT_DUAL

\* canfilter_bxcan::debug_print: the shape of bank i from its FS1R and FM1R
\* bits and the fields of FR1 / FR2 (>> 5 and >> 21 for 16-bit banks, >> 3 for
\* 32-bit banks, masked with the limit of the space)
debug_print(hw, i) ==
    LET is_32bit == TestBit(hw.fs1r, i)
        is_list  == TestBit(hw.fm1r, i)
    IN  IF is_32bit
        THEN [shape |-> IF is_list THEN "ext list" ELSE "ext mask",
              f |-> << BitAnd(Shr(hw.fr1[i], 3), max_ext_id),
                       BitAnd(Shr(hw.fr2[i], 3), max_ext_id) >>]
        ELSE [shape |-> IF is_list THEN "std list" ELSE "std mask",
              f |-> << BitAnd(Shr(hw.fr1[i], 5), max_std_id),
                       BitAnd(Shr(hw.fr1[i], 21), max_std_id),
                       BitAnd(Shr(hw.fr2[i], 5), max_std_id),
                       BitAnd(Shr(hw.fr2[i], 21), max_std_id) >>]

\* debug_print's range of a decoded (base, mask) pair
MaskRange(base, mask, max) ==
    LET begin1 == BitAnd(base, mask)
    IN  [begin |-> begin1, end |-> BitAnd(BitOr(begin1, max - mask), max)]

\* a partly filled accumulator as the emit operation receives it: the free
\* slots hold the first element
Padded(seq, n) == [j \in 1 .. n |-> IF j <= Len(seq) THEN seq[j] ELSE seq[1]]

\* the banks that a sequence of blocks asks for, given what is pending in the
\* three accumulators: four list identifiers, two (identifier, mask) pairs or
\* two extended identifiers make a bank, an extended mask is a bank by itself
RECURSIVE BanksAsked(_, _, _, _)
BanksAsked(lst, msk, ext, items) ==
    IF items = <<>> THEN <<>>
    ELSE LET b == Head(items) IN
         IF b.std /\ b.list
         THEN IF Len(lst) = 3
              THEN <<[shape |-> "std list", f |-> Append(lst, b.id)]>>
                       \o BanksAsked(<<>>, msk, ext, Tail(items))
              ELSE BanksAsked(Append(lst, b.id), msk, ext, Tail(items))
         ELSE IF b.std
         THEN IF Len(msk) = 2
              THEN <<[shape |-> "std mask", f |-> msk \o <<b.id, b.mask>>]>>
                       \o BanksAsked(lst, <<>>, ext, Tail(items))
              ELSE BanksAsked(lst, msk \o <<b.id, b.mask>>, ext, Tail(items))
         ELSE IF b.list
         THEN IF Len(ext) = 1
              THEN <<[shape |-> "ext list", f |-> Append(ext, b.id)]>>
                       \o BanksAsked(lst, msk, <<>>, Tail(items))
              ELSE BanksAsked(lst, msk, Append(ext, b.id), Tail(items))
         ELSE <<[shape |-> "ext mask", f |-> <<b.id, b.mask>>]>>
                  \o BanksAsked(lst, msk, ext, Tail(items))

\* the blocks of a range, tagged with their space
Tagged(blocks, isStd) ==
    [j \in 1 .. Len(blocks) |->
         [std |-> isStd, list |-> blocks[j].list, id |-> blocks[j].id, mask |-> blocks[j].mask]]

\* the blocks the call c hands to the accumulators
BlocksOf(c) ==
    CASE c.op \in {"add_std_id", "add_std_range"} ->
             IF c.a > max_std_id \/ c.b > max_std_id THEN <<>>
             ELSE Tagged(std_range_blocks(c.a, c.b), TRUE)
      [] c.op \in {"add_ext_id", "add_ext_range"} ->
             IF c.a > max_ext_id \/ c.b > max_ext_id THEN <<>>
             ELSE Tagged(ext_range_blocks(c.a, c.b), FALSE)
      [] c.op = "allow_all" ->
             Tagged(std_range_blocks(0, max_std_id), TRUE)
                 \o Tagged(ext_range_blocks(0, max_ext_id), FALSE)
      [] OTHER -> <<>>

\* what is pending in the accumulators of s
PendingList(s) == [j \in 1 .. s.std_list_count |-> s.std_list[j - 1]]
PendingMask(s) ==
    IF s.std_mask_count = 0 THEN <<>> ELSE <<s.std_mask[0].id, s.std_mask[0].mask>>
PendingExt(s) == [j \in 1 .. s.ext_list_count |-> s.ext_list[j - 1]]

\* the banks that end() asks for
BanksFlushed(s) ==
    (IF s.std_list_count # 0
     THEN <<[shape |-> "std list", f |-> Padded(PendingList(s), 4)]>> ELSE <<>>)
    \o (IF s.std_mask_count # 0
        THEN <<[shape |-> "std mask", f |-> PendingMask(s) \o PendingMask(s)]>> ELSE <<>>)
    \o (IF s.ext_list_count # 0
        THEN <<[shape |-> "ext list", f |-> Padded(PendingExt(s), 2)]>> ELSE <<>>)

\* the registers of a bank hold the decoded fields and nothing else: no field
\* reaches into another
FieldsApart(hw, i, d) ==
    IF d.shape \in {"std list", "std mask"}
    THEN /\ hw.fr1[i] = Shl(d.f[1], 5) + Shl(d.f[2], 21)
         /\ hw.fr2[i] = Shl(d.f[3], 5) + Shl(d.f[4], 21)
    ELSE /\ hw.fr1[i] = Shl(d.f[1], 3) + Shl(1, 2)
         /\ hw.fr2[i] = Shl(d.f[2], 3) + (IF d.shape = "ext list" THEN Shl(1, 2) ELSE 0)

\* the range debug_print shows for a mask pair is the block base ..
\* base + (MAX - mask) that the decomposition produced
MaskIsBlock(d) ==
    /\ d.shape = "std mask" =>
           /\ MaskRange(d.f[1], d.f[2], max_std_id)
                  = [begin |-> d.f[1], end |-> d.f[1] + (max_std_id - d.f[2])]
           /\ MaskRange(d.f[3], d.f[4], max_std_id)
                  = [begin |-> d.f[3], end |-> d.f[3] + (max_std_id - d.f[4])]
    /\ d.shape = "ext mask" =>
           MaskRange(d.f[1], d.f[2], max_ext_id)
               = [begin |-> d.f[1], end |-> d.f[1] + (max_ext_id - d.f[2])]

C25_Step ==
    (filter'.kind = "bxcan" /\ lastCall'.op # "begin") =>
        \A asked \in {IF lastCall'.op = "end"
                      THEN BanksFlushed(filter)
                      ELSE BanksAsked(PendingList(filter), PendingMask(filter),
                                      PendingExt(filter), BlocksOf(lastCall'))} :
            LET n == filter'.bank - filter.bank
                hw == filter'.hw_config
            IN  /\ 0 <= n /\ n <= Len(asked)
                /\ lastCall'.err = CANFILTER_SUCCESS => n = Len(asked)
                /\ \A j \in 1 .. n :
                       \A i \in {filter.bank + j - 1}, d \in {asked[j]} :
                           /\ TestBit(hw.fa1r, i)
                           /\ debug_print(hw, i) = d
                           /\ FieldsApart(hw, i, d)
                           /\ MaskIsBlock(d)
                /\ \A i \in 0 .. filter.bank - 1 :
                       /\ hw.fr1[i] = filter.hw_config.fr1[i]
                       /\ hw.fr2[i] = filter.hw_config.fr2[i]
                       /\ debug_print(hw, i) = debug_print(filter.hw_config, i)

\* C25: for every bank the builder emits, the FS1R and FM1R bits give the
\* shape it was emitted with, and decoding FR1 / FR2 as debug_print does gives
\* back exactly the identifiers or (base, mask) pairs handed to the emit
\* operation; the fields do not overlap (11-bit fields at bits 5 and 21 stay
\* inside their 16-bit halves); for a mask bank the decoded range
\* begin = base & mask, end = (begin | ~mask) & MAX is the block the
\* decomposition produced; banks emitted earlier are not touched.
C25_BxEncodingRoundTrip ==
    [][C25_Step /\ Shl(2047, 5) < 2 ^ 16]_vars

\* a range filled a 16-bit mask bank with two different blocks
C25_Witness ==
    /\ filter.kind = "bxcan" /\ filter.bank >= 1
    /\ lastCall.op = "add_std_range" /\ lastCall.err = CANFILTER_SUCCESS
    /\ LET d == debug_print(filter.hw_config, filter.bank - 1)
       IN  /\ d.shape = "std mask"
           /\ d.f[1] # d.f[3] /\ d.f[2] # d.f[4]
           /\ d.f[2] # 0

\* the identity tag of the class the object was constructed as
VariantTag(s) ==
    IF s.kind = "bxcan"
    THEN IF s.max_banks = BanksF0 THEN CANFILTER_DEV_BXCAN_F0 ELSE CANFILTER_DEV_BXCAN_F4
    ELSE IF s.max_std_filter = StdG0 /\ s.max_ext_filter = ExtG0
         THEN CANFILTER_DEV_FDCAN_G0 ELSE CANFILTER_DEV_FDCAN_H7

\* C26: in every state after begin(), on each of the four variants, the first
\* byte of the image is the variant's identity tag (1 = bxCAN with 14 banks,
\* 2 = bxCAN with 28, 3 = FDCAN 28/8, 4 = FDCAN 128/64), the reserved header
\* bytes are zero and on bxCAN FFA1R is zero, whatever add_* and end() calls
\* were made and whatever they returned.
C26_ImageHeader ==
    episode.begun =>
        /\ filter.hw_config.dev = VariantTag(filter)
        /\ filter.hw_config.dev \in 1 .. 4
        /\ \A j \in DOMAIN filter.hw_config.reserved : filter.hw_config.reserved[j] = 0
        /\ filter.kind = "bxcan" => filter.hw_config.ffa1r = 0

\* banks were written and end() was called on the 28-bank variant
C26_Witness ==
    /\ episode.begun /\ filter.kind = "bxcan"
    /\ filter.hw_config.dev = CANFILTER_DEV_BXCAN_F4
    /\ lastCall.op = "end" /\ filter.bank >= 2

\* C27: when open_vid_pid was called with a non-empty serial, the device it
\* holds has an iSerialNumber string descriptor equal to that serial; a device
\* whose serial differs, cannot be read or does not exist is never held.
C27_SerialMatches ==
    (usb_device.handle_ # 0 /\ usb_device.serial # "") =>
        /\ usb_device.held.iSerialNumber > 0
        /\ usb_device.held.sn = usb_device.serial

(***************************************************************************)
(* canfilter::parse(const std::vector<std::string>&), canfilter.cpp        *)
(* 101-108: parse(arg) on each buffer in turn, false at the first buffer   *)
(* whose parse returns false, true after the last.                         *)
(***************************************************************************)
MaxArgs == 2

ArgBuffers ==
    { <<>>, <<"1">>, <<"2">>, <<"1", "-", "2">>, <<"1", "-">>, <<"-", "2">>,
      <<"-">>, <<",">>, <<" ", "3", ",">>, <<"0", "x", "1", "0">>, <<"9", "9">>,
      <<"2", ",", "5", "x">>, <<"1", "-", "2", "-", "3">> }

ArgLists == UNION {[1 .. n -> ArgBuffers] : n \in 0 .. MaxArgs}

\* the buffers of args written one after the other with sep between them
RECURSIVE Joined(_, _)
Joined(args, sep) ==
    IF args = <<>> THEN <<>>
    ELSE IF Len(args) = 1 THEN args[1]
    ELSE args[1] \o sep \o Joined(Tail(args), sep)

\* parse(input) from pos on as one run: its return value and the add_* calls
\* it dispatched
RECURSIVE ParseAll(_, _, _, _)
ParseAll(input, pos, w, calls) ==
    LET it == parse_item(input, pos, w)
    IN  IF it.kind = "call"
        THEN ParseAll(input, it.next, w,
                      Append(calls, [op |-> it.op, a |-> it.a, b |-> it.b]))
        ELSE [ret |-> it.kind = "done", calls |-> calls]

InitArgs ==
    /\ filter \in {begin(canfilter_bxcan_f4(0)).s, begin(canfilter_fdcan_h7(0)).s}
    /\ requested = NoRequest
    /\ episode = NoEpisode
    /\ lastCall = NoCall
    /\ rng = NoRange
    /\ \E l \in ArgLists, w \in ULongLimbs :
           orch = [pc |-> "end", driver_name |-> "SocketCAN", filter_def |-> <<>>,
                   pos |-> 1, hw_filter |-> filter.dev_val, ret |-> FALSE,
                   results |-> <<CANFILTER_SUCCESS>>,
                   ulong_limbs |-> w, script |-> <<>>, calls |-> <<>>,
                   args |-> l, all |-> l]
    /\ usb_device = NoUsb
    /\ log = <<>>

\* line 103-104: the loop takes the next buffer and enters parse(arg)
NextArg ==
    /\ orch.pc = "end"
    /\ orch.args # <<>>
    /\ orch' = [orch EXCEPT !.pc = "parse", !.filter_def = Head(orch.args),
                            !.pos = 1, !.args = Tail(@)]
    /\ UNCHANGED <<filter, requested, episode, lastCall, rng, usb_device, log>>

\* line 107: every buffer parsed, return true
ArgsDone ==
    /\ orch.pc = "end"
    /\ orch.args = <<>>
    /\ orch' = Return(TRUE)
    /\ UNCHANGED <<filter, requested, episode, lastCall, rng, usb_device, log>>

NextArgs == NextArg \/ ParseStep \/ ArgsDone

SpecArgs == InitArgs /\ [][NextArgs]_vars

\* C28: parsing a list of buffers returns the same boolean and dispatches the
\* same sequence of add_* calls as parsing the one text made of the buffers
\* joined by a separator (a blank or a comma).
C28_ListAsJoined ==
    orch.pc = "done" =>
        \E sep \in { <<" ">>, <<",">> } :
            LET one == ParseAll(Joined(orch.all, sep), 1, orch.ulong_limbs, <<>>)
            IN  /\ orch.ret = one.ret
                /\ orch.calls = one.calls

\* last identifier of block i of the range operation
BlockEnd(i) == BitAnd(BitOr(rng.blocks[i].id, RngMax - rng.blocks[i].mask), RngMax)

\* C29: within one bxCAN range operation the blocks handed to the list / mask
\* accumulators are in strictly ascending order: the first starts at the lower
\* endpoint, and each next one starts exactly one past the end of the one
\* before it.
C29_BlocksAscendAdjacent ==
    rng.pc = "out" =>
        /\ Len(rng.blocks) >= 1
        /\ rng.blocks[1].id = RngLo
        /\ \A i \in 1 .. Len(rng.blocks) - 1 :
               /\ rng.blocks[i + 1].id > rng.blocks[i].id
               /\ rng.blocks[i + 1].id = BlockEnd(i) + 1

\* a standard range, endpoints in order, cut into at least three blocks with
\* a block of more than one identifier before the last
C29_Witness ==
    /\ rng.pc = "out" /\ rng.space = "std" /\ rng.a < rng.b
    /\ Len(rng.blocks) >= 3
    /\ \E i \in 1 .. Len(rng.blocks) - 1 : BlockEnd(i) > rng.blocks[i].id

\* what one end() call does to a bxCAN object: asked are the banks of the
\* non-empty accumulators in the order std list, std mask, ext list, room the
\* banks that are left
C30_Step ==
    (filter'.kind = "bxcan" /\ lastCall'.op = "end") =>
        LET asked == BanksFlushed(filter)
            room  == filter.max_banks - filter.bank
            n     == IF Len(asked) <= room THEN Len(asked) ELSE room
            hw    == filter'.hw_config
        IN  /\ filter'.bank = filter.bank + n
            /\ lastCall'.err = IF Len(asked) <= room THEN CANFILTER_SUCCESS
                               ELSE CANFILTER_ERROR_FULL
            /\ \A j \in 1 .. n :
                   /\ TestBit(hw.fa1r, filter.bank + j - 1)
                   /\ debug_print(hw, filter.bank + j - 1) = asked[j]
            /\ \A i \in 0 .. filter.max_banks - 1 :
                   (i < filter.bank \/ i >= filter.bank + n) =>
                       /\ hw.fr1[i] = filter.hw_config.fr1[i]
                       /\ hw.fr2[i] = filter.hw_config.fr2[i]
                       /\ TestBit(hw.fa1r, i) = TestBit(filter.hw_config.fa1r, i)

\* C30: end() of a bxCAN object emits one bank for each non-empty accumulator
\* and none for an empty one, in the order std list, std mask, ext list, on
\* consecutive bank indices from the current one; at the first emission that
\* does not return Success nothing more is emitted and end() returns that
\* kind; every other bank is left as it was.
C30_EndFlushOrder ==
    [][C30_Step]_vars

\* end() has just flushed all three accumulators into three banks in a row
C30_Witness ==
    /\ filter.kind = "bxcan" /\ filter.bank >= 3
    /\ lastCall.op = "end" /\ lastCall.err = CANFILTER_SUCCESS
    /\ filter.std_list_count # 0 /\ filter.std_mask_count # 0 /\ filter.ext_list_count # 0
    /\ debug_print(filter.hw_config, filter.bank - 3).shape = "std list"
    /\ debug_print(filter.hw_config, filter.bank - 2).shape = "std mask"
    /\ debug_print(filter.hw_config, filter.bank - 1).shape = "ext list"

\* end() has stopped at an emission that found no bank left
C30_ShortCircuit ==
    /\ filter.kind = "bxcan" /\ filter.bank = filter.max_banks
    /\ lastCall.op = "end" /\ lastCall.err = CANFILTER_ERROR_FULL
    /\ filter.std_mask_count # 0 /\ filter.ext_list_count # 0

\* the entries the directives since the latest begin() handed to the
\* accumulators, in order (every directive of the episode was in space)
RECURSIVE EntriesOf(_)
EntriesOf(dirs) ==
    IF dirs = <<>> THEN <<>>
    ELSE LET d  == Head(dirs)
             lo == CHOOSE x \in d.ids : \A y \in d.ids : x <= y
             hi == CHOOSE x \in d.ids : \A y \in d.ids : x >= y
         IN  (IF d.std THEN Tagged(std_range_blocks(lo, hi), TRUE)
                       ELSE Tagged(ext_range_blocks(lo, hi), FALSE))
                 \o EntriesOf(Tail(dirs))

\* how many of the entries are of one kind
CountKind(entries, isStd, isList) ==
    Cardinality({j \in 1 .. Len(entries) :
                     entries[j].std = isStd /\ entries[j].list = isList})

Ceil(n, d) == (n + d - 1) \div d

\* the lower three quarters of the standard space (0x000-0x2FF with 11 bits)
ThreeQuarters == 3 * 2 ^ (StdBits - 2) - 1

\* C31: after a successful begin / add* / end episode on bxCAN whose directives
\* produced L standard list entries, M standard mask entries, X extended list
\* entries and E extended mask entries, bank = ceil(L/4) + ceil(M/2) +
\* ceil(X/2) + E. The lower three quarters of the standard space are two mask
\* entries, (0, top bit) and (half, top two bits), in slots 0 and 1 of one
\* bank; with 11 bits these are (0, 0x600) and (0x200, 0x700).
C31_PackingDensity ==
    /\ (filter.kind = "bxcan" /\ CleanEpisodeEnded /\ episode.inSpace) =>
           \A e \in {EntriesOf(episode.dirs)} :
               filter.bank = Ceil(CountKind(e, TRUE, TRUE), 4)
                                 + Ceil(CountKind(e, TRUE, FALSE), 2)
                                 + Ceil(CountKind(e, FALSE, TRUE), 2)
                                 + CountKind(e, FALSE, FALSE)
    /\ (filter.kind = "bxcan" /\ lastCall.op = "begin") =>
           \A r1 \in {add_std_range(filter, 0, ThreeQuarters)} : \A r2 \in {end(r1.s)} :
               /\ r1.err = CANFILTER_SUCCESS /\ r2.err = CANFILTER_SUCCESS
               /\ r2.s.bank = 1
               /\ debug_print(r2.s.hw_config, 0)
                      = [shape |-> "std mask",
                         f |-> << 0, HighMask(StdBits, StdBits - 1),
                                  2 ^ (StdBits - 1), HighMask(StdBits, StdBits - 2) >>]
    /\ PrefixUp(11, 0, 767, PrefixDown(11, 0, 11)) = 2 /\ HighMask(11, 11 - 2) = 1536
    /\ PrefixUp(11, 512, 767, PrefixDown(11, 512, 11)) = 3 /\ HighMask(11, 11 - 3) = 1792

\* two directives filled one list bank between them, and a mask entry took a
\* second bank at end()
C31_Witness ==
    /\ filter.kind = "bxcan" /\ CleanEpisodeEnded /\ episode.inSpace
    /\ Len(episode.dirs) = 2
    /\ CountKind(EntriesOf(episode.dirs), TRUE, TRUE) = 4
    /\ CountKind(EntriesOf(episode.dirs), TRUE, FALSE) = 1
    /\ filter.bank = 2

\* C32: on either back-end, when end() returns Success every identifier and
\* every range handed to an add_* call since the latest begin() is accepted by
\* the image, whatever the add_* calls returned.
C32_EndSuccessCertifies ==
    (episode.begun /\ lastCall.op = "end" /\ lastCall.err = CANFILTER_SUCCESS) =>
        /\ requested.std \subseteq AcceptedStd(filter)
        /\ requested.ext \subseteq AcceptedExt(filter)

\* as it is: end() returning Success certifies the episode when every add_*
\* call since the latest begin() returned Success as well (end() may have been
\* called more than once); when an add_* call failed, end() can still return
\* Success, and then the image accepts no identifier that was not handed in.
C32_CleanEndCertifies ==
    (episode.begun /\ lastCall.op = "end" /\ lastCall.err = CANFILTER_SUCCESS) =>
        \A ms \in {AcceptedStd(filter)}, me \in {AcceptedExt(filter)} :
            /\ ms \subseteq requested.std
            /\ me \subseteq requested.ext
            /\ episode.allOk => (requested.std \subseteq ms /\ requested.ext \subseteq me)

\* a second end() returned Success after a first one had flushed a pending
\* entry, all add_* calls having succeeded
C32_Witness ==
    /\ episode.begun /\ episode.allOk /\ episode.ends = 2
    /\ lastCall.op = "end" /\ lastCall.err = CANFILTER_SUCCESS
    /\ requested.std # {}

(***************************************************************************)
(* The loop of add_std_range / add_ext_range step by step, with the two    *)
(* loops of std_largest_prefix / ext_largest_prefix inside it. rng holds   *)
(* the locals: begin, end, prefix, the blocks handed over so far, and peak *)
(* and shift, the largest value and the largest shift amount computed so   *)
(* far. The accumulators are taken to return Success: a failure only       *)
(* leaves the loop earlier.                                                 *)
(***************************************************************************)
Larger(x, y) == IF x >= y THEN x ELSE y

\* entry of add_*_range with in-space endpoints: the swap
InitLoop ==
    /\ filter = canfilter_bxcan_f0(0)
    /\ requested = NoRequest
    /\ episode = NoEpisode
    /\ lastCall = NoCall
    /\ OrchIdle
    /\ \E sp \in {"std", "ext"} :
       \E a \in 0 .. (IF sp = "std" THEN max_std_id ELSE max_ext_id),
          b \in 0 .. (IF sp = "std" THEN max_std_id ELSE max_ext_id) :
           rng = [space |-> sp, a |-> a, b |-> b, pc |-> "while", blocks |-> <<>>,
                  begin |-> IF a > b THEN b ELSE a, end |-> IF a > b THEN a ELSE b,
                  prefix |-> 0, peak |-> Larger(a, b), shift |-> 0]

\* while (begin <= end): enter largest_prefix with prefix = W, or return
LoopTest ==
    /\ rng.pc = "while"
    /\ rng' = IF rng.begin <= rng.end
              THEN [rng EXCEPT !.pc = "down", !.prefix = RngBits]
              ELSE [rng EXCEPT !.pc = "done"]
    /\ UNCHANGED <<filter, requested, episode, lastCall, orch, usb_device, log>>

\* one pass of the first loop of largest_prefix
LoopDown ==
    /\ rng.pc = "down"
    /\ rng' = IF rng.prefix > 0
              THEN IF TestBit(rng.begin, RngBits - rng.prefix)
                   THEN [rng EXCEPT !.pc = "up",
                                    !.shift = Larger(@, RngBits - rng.prefix)]
                   ELSE [rng EXCEPT !.prefix = @ - 1,
                                    !.shift = Larger(@, RngBits - rng.prefix)]
              ELSE [rng EXCEPT !.pc = "up"]
    /\ UNCHANGED <<filter, requested, episode, lastCall, orch, usb_device, log>>

\* one pass of the second loop of largest_prefix
LoopUp ==
    /\ rng.pc = "up"
    /\ rng' = IF rng.prefix < RngBits
              THEN LET block_size == Shl(1, RngBits - rng.prefix)
                       s == [rng EXCEPT !.shift = Larger(@, RngBits - rng.prefix),
                                        !.peak = Larger(@, rng.begin + block_size)]
                   IN  IF rng.begin + block_size - 1 > rng.end
                       THEN [s EXCEPT !.prefix = @ + 1]
                       ELSE [s EXCEPT !.pc = "emit"]
              ELSE [rng EXCEPT !.pc = "emit"]
    /\ UNCHANGED <<filter, requested, episode, lastCall, orch, usb_device, log>>

\* variant of the loop body that leaves begin where it was
LoopBody_stay ==
    /\ rng.pc = "emit"
    /\ LET mask == HighMask(RngBits, RngBits - rng.prefix)
       IN  rng' = [rng EXCEPT
                      !.pc = "while",
                      !.blocks = Append(@, [list |-> (mask = RngMax), id |-> rng.begin,
                                            mask |-> mask])]
    /\ UNCHANGED <<filter, requested, episode, lastCall, orch, usb_device, log>>

\* the rest of the loop body: mask, the entry for the accumulator, begin +=
\* block_size
LoopBody ==
    /\ rng.pc = "emit"
    /\ LET mask == HighMask(RngBits, RngBits - rng.prefix)
           block_size == Shl(1, RngBits - rng.prefix)
       IN  rng' = [rng EXCEPT
                      !.pc = "while",
                      !.blocks = Append(@, [list |-> (mask = RngMax), id |-> rng.begin,
                                            mask |-> mask]),
                      !.begin = @ + block_size,
                      !.shift = Larger(@, RngBits - rng.prefix),
                      !.peak = Larger(@, rng.begin + block_size)]
    /\ UNCHANGED <<filter, requested, episode, lastCall, orch, usb_device, log>>

NextLoop == LoopTest \/ LoopDown \/ LoopUp \/ LoopBody

\* the function runs on: some step is taken as long as one is possible
SpecLoop == InitLoop /\ [][NextLoop]_vars /\ WF_vars(NextLoop)

\* what holds at every point of the loop
LoopBounded ==
    /\ rng.prefix \in 0 .. RngBits
    /\ rng.shift <= RngBits
    /\ rng.peak <= 2 ^ (RngBits + 1) - 1
    /\ Len(rng.blocks) <= 2 * (RngBits - 1)
    /\ Cardinality({j \in 1 .. Len(rng.blocks) : rng.blocks[j].list}) <= 2
    /\ rng.pc = "done" =>
           rng.blocks = IF rng.space = "std" THEN std_range_blocks(rng.a, rng.b)
                                             ELSE ext_range_blocks(rng.a, rng.b)

\* C33: for every pair of in-space endpoints the decomposition loop returns;
\* the prefix stays within 0 .. W, no shift exceeds W, and no value computed
\* for begin, begin + block_size or begin + block_size - 1 exceeds 2^(W+1) - 1
\* (below 2^32 for W = 11 and W = 29); at most 2 * (W - 1) blocks are produced
\* (20 and 56), at most two of them single-ID list entries.
C33_LoopTerminatesBounded ==
    /\ [](LoopBounded /\ 2 ^ (29 + 1) - 1 < 2147483647
              /\ 2 * (11 - 1) = 20 /\ 2 * (29 - 1) = 56)
    /\ <>(rng.pc = "done")

\* the loop returned after the largest number of blocks of the extended
\* space, two of them list entries
C33_Witness ==
    /\ rng.pc = "done" /\ rng.space = "ext" /\ rng.a > rng.b
    /\ Len(rng.blocks) = 2 * (ExtBits - 1)
    /\ Cardinality({j \in 1 .. Len(rng.blocks) : rng.blocks[j].list}) = 2
    /\ rng.peak > max_ext_id

\* C34: in open_vid_pid the store buf[len] = 0 is made at an index inside the
\* 256-byte buffer, whatever the read of the serial string returned.
C34_TerminatorInBuffer ==
    usb_device.len \in 0 .. sizeof_buf - 1

\* the standard side and the extended side of an FDCAN object
StdSide(s) == [nbr |-> s.hw_config.std_filter_nbr, tab |-> s.hw_config.std_filter,
               acc |-> s.std_id, cnt |-> s.std_id_count]
ExtSide(s) == [nbr |-> s.hw_config.ext_filter_nbr, tab |-> s.hw_config.ext_filter,
               acc |-> s.ext_id, cnt |-> s.ext_id_count]

C35_Step ==
    /\ (filter'.kind = "fdcan" /\ lastCall'.op \in {"add_std_id", "add_std_range"}) =>
           /\ ExtSide(filter') = ExtSide(filter)
           /\ lastCall'.err = CANFILTER_ERROR_FULL =>
                  filter.hw_config.std_filter_nbr = filter.max_std_filter
    /\ (filter'.kind = "fdcan" /\ lastCall'.op \in {"add_ext_id", "add_ext_range"}) =>
           /\ StdSide(filter') = StdSide(filter)
           /\ lastCall'.err = CANFILTER_ERROR_FULL =>
                  filter.hw_config.ext_filter_nbr = filter.max_ext_filter

\* C35: on FDCAN, add_std_id and add_std_range, whatever they return, leave
\* ext_filter_nbr, ext_filter[] and the ext_id accumulator as they were, and
\* add_ext_id and add_ext_range leave std_filter_nbr, std_filter[] and the
\* std_id accumulator as they were; an operation returns Full only when the
\* table of its own side is full.
C35_SidesIndependent ==
    [][C35_Step]_vars

\* an extended range was added with Success while the standard table was full
C35_Witness ==
    /\ filter.kind = "fdcan"
    /\ filter.hw_config.std_filter_nbr = filter.max_std_filter
    /\ lastCall.op = "add_ext_range" /\ lastCall.err = CANFILTER_SUCCESS
    /\ filter.hw_config.ext_filter_nbr >= 1

\* the arguments of the add_* call c are inside the space of the call
ArgsInSpace(c) ==
    IF c.op \in {"add_std_id", "add_std_range"}
    THEN c.a <= max_std_id /\ c.b <= max_std_id
    ELSE c.a <= max_ext_id /\ c.b <= max_ext_id

\* the accumulator counts between calls
CountsInRange(s) ==
    IF s.kind = "bxcan"
    THEN /\ s.std_list_count \in 0 .. 3
         /\ s.std_mask_count \in 0 .. 1
         /\ s.ext_list_count \in 0 .. 1
    ELSE s.std_id_count \in 0 .. 1 /\ s.ext_id_count \in 0 .. 1

C36_Step ==
    /\ lastCall'.op \in {"add_std_id", "add_std_range", "add_ext_id", "add_ext_range"} =>
           IF ArgsInSpace(lastCall')
           THEN lastCall'.err # CANFILTER_ERROR_PARAM
           ELSE lastCall'.err = CANFILTER_ERROR_PARAM /\ filter' = filter
    /\ lastCall'.op \in {"end", "allow_all"} => lastCall'.err # CANFILTER_ERROR_PARAM
    /\ episode'.begun => CountsInRange(filter')

\* C36: on both back-ends an add_* call with an argument above the limit of
\* its space returns Param and leaves the whole object (image, bank / element
\* counts, accumulators) as it was; with arguments inside the space no add_*
\* call and no end() returns Param; between calls the accumulator counts are
\* within std_list 0..3, std_mask 0..1, ext_list 0..1, std_id / ext_id 0..1.
C36_ParamOnlyOutOfSpace ==
    [][C36_Step]_vars

\* a range with one endpoint above the limit was refused while an entry was
\* pending and a bank or an element was in the image
C36_Witness ==
    /\ lastCall.op = "add_ext_range" /\ lastCall.err = CANFILTER_ERROR_PARAM
    /\ lastCall.a > max_ext_id /\ lastCall.b <= max_ext_id
    /\ IF filter.kind = "bxcan"
       THEN filter.bank >= 1 /\ filter.ext_list_count = 1
       ELSE filter.hw_config.ext_filter_nbr >= 1 /\ filter.ext_id_count = 1

\* the calls of parse on each of the buffers of args, one after the other
RECURSIVE CallsOfAll(_, _)
CallsOfAll(args, w) ==
    IF args = <<>> THEN <<>>
    ELSE ParseAll(Head(args), 1, w, <<>>).calls \o CallsOfAll(Tail(args), w)

\* the number of buffers the loop has taken
Examined == Len(orch.all) - Len(orch.args)

\* C37: when parse() returns false the builder has received the directives of
\* the text before the place where the failing token starts, in text order,
\* and nothing from there on; with a list of buffers every buffer before the
\* failing one was parsed whole with success, and the buffers after it are not
\* examined; parse() returns true only after the last buffer.
C37_FailFastNoRollback ==
    orch.pc = "done" =>
        \A w \in {orch.ulong_limbs} :
            /\ \A j \in 1 .. Examined - 1 : ParseAll(orch.all[j], 1, w, <<>>).ret
            /\ orch.ret => Examined = Len(orch.all)
            /\ ~orch.ret =>
                   /\ Examined >= 1
                   /\ orch.filter_def = orch.all[Examined]
                   /\ ~ParseAll(orch.filter_def, 1, w, <<>>).ret
                   /\ \A before \in {ParseAll(SubSeq(orch.filter_def, 1, orch.pos - 1),
                                              1, w, <<>>)} :
                          /\ before.ret
                          /\ orch.calls
                                 = CallsOfAll(SubSeq(orch.all, 1, Examined - 1), w)
                                       \o before.calls

\* the second token of the first buffer failed after two directives, and the
\* second buffer was left alone
C37_Witness ==
    /\ orch.pc = "done" /\ ~orch.ret
    /\ Len(orch.all) = 2 /\ orch.args # <<>>
    /\ orch.pos > 1 /\ Len(orch.calls) = 2

====
